---------------------------- MODULE Spec2Model ----------------------------
(***************************************************************************)
(* A state-machine model of the blog API: the document store (users,       *)
(* categories, tags, posts, comments) and the request handlers of the      *)
(* controllers, each handler one atomic action.  A request body is a       *)
(* record holding any subset of the fields; a handler that hands req.body  *)
(* to the store writes every schema field the body holds.  For the         *)
(* requests that run concurrently the handlers are also modelled step by   *)
(* step, one step per store operation, with the requests in flight kept in *)
(* inflight.                                                               *)
(***************************************************************************)
EXTENDS Integers, Sequences, FiniteSets, TLC

VARIABLES users, categories, tags, posts, comments, nextUserId, nextPostId, nextCommentId,
          now, res, inflight

vars ==
  <<users, categories, tags, posts, comments, nextUserId, nextPostId, nextCommentId, now, res,
    inflight>>

(***************************************************************************)
(* Bounds of the model.                                                    *)
(***************************************************************************)
MaxPosts == 2
MaxComments == 3
MaxClock == 3
MaxUsers == 4
MaxViews == 2
MaxInflight == 2

(***************************************************************************)
(* Values.                                                                 *)
(***************************************************************************)
NoDate == 0
MinTitleLen == 5
MinContentLen == 50
WordsPerMinute == 200

Roles == {"user", "editor", "admin"}
PostStatuses == {"draft", "published", "archived"}
CommentStatuses == {"pending", "approved", "rejected"}

AdminId == 1
EditorId == 2
RegularId == 3

UserIds == 1..MaxUsers
CategoryIds == {"technology", "programming"}
TagIds == {"javascript", "python"}
PostIds == 1..MaxPosts
CommentIds == 1..MaxComments

\* req.user when no middleware has resolved a caller
NoUser == [id |-> 0, role |-> "none"]

Has(body, f) == f \in DOMAIN body

\* Model.findByIdAndUpdate(id, body): $set of every schema field the body holds
Merge(doc, body) ==
  [f \in DOMAIN doc |-> IF f \in DOMAIN body THEN body[f] ELSE doc[f]]

Put(coll, id, doc) == [x \in DOMAIN coll \cup {id} |-> IF x = id THEN doc ELSE coll[x]]

Remove(coll, ids) == [x \in DOMAIN coll \ ids |-> coll[x]]

Range(s) == {s[i] : i \in DOMAIN s}

\* String.prototype.trim on a sequence of characters
RECURSIVE trim(_)
trim(s) ==
  IF s = <<>> THEN s
  ELSE IF s[1] = " " THEN trim(Tail(s))
  ELSE IF s[Len(s)] = " " THEN trim(SubSeq(s, 1, Len(s) - 1))
  ELSE s

\* a .trim() sanitizer of a validation chain: it rewrites the field in req.body
sanitized(body, f) == IF f \in DOMAIN body THEN [body EXCEPT ![f] = trim(@)] ELSE body

\* the answer of the last request, with the request it answers (a toggle-like answer
\* also records, as "before", the likes the handler read)
Response(op, code, msg, req, data) ==
  [op |-> op, code |-> code, msg |-> msg, req |-> req, data |-> data]

Request(user, id, body) == [user |-> user, id |-> id, body |-> body]

NoData == [none |-> TRUE]

(***************************************************************************)
(* Requests in flight.  A slot holds one request: where its handler stands *)
(* (pc), what it has read from the store (snap), its answer once it is     *)
(* done, and which other slots were in flight when it began and when it    *)
(* ended.                                                                  *)
(***************************************************************************)
Slots == 1..MaxInflight

Idle ==
  [pc |-> "idle", op |-> "none", req |-> Request(NoUser, 0, NoData), snap |-> NoData,
   began |-> {}, ended |-> {}, answer |-> NoData]

InFlight(s) == inflight[s].pc \notin {"idle", "done"}

Others(s) == {y \in Slots \ {s} : InFlight(y)}

\* slot s takes a new request: the answers of the requests that are done are
\* dropped, and so is what the others recorded of the request that held s before
Taken(s, rec) ==
  inflight' = [x \in Slots |->
                 IF x = s THEN rec
                 ELSE IF ~InFlight(x) THEN Idle
                 ELSE [inflight[x] EXCEPT !.began = @ \ {s}, !.ended = @ \ {s}]]

\* a handler suspends at a store operation, with what it has read so far
Begin(s, op, pc, req, snap) ==
  /\ Taken(s, [pc |-> pc, op |-> op, req |-> req, snap |-> snap, began |-> Others(s),
               ended |-> {}, answer |-> NoData])
  /\ UNCHANGED res

\* a handler answers in its first step
Answer(s, op, code, msg, req, data) ==
  /\ Taken(s, [pc |-> "done", op |-> op, req |-> req, snap |-> NoData, began |-> Others(s),
               ended |-> Others(s), answer |-> Response(op, code, msg, req, data)])
  /\ res' = Response(op, code, msg, req, data)

\* a suspended handler resumes and suspends again
Resume(s, pc, snap) ==
  /\ inflight' = [inflight EXCEPT ![s].pc = pc, ![s].snap = snap]
  /\ UNCHANGED res

\* a suspended handler resumes and answers
Finish(s, code, msg, data) ==
  /\ inflight' = [inflight EXCEPT ![s].pc = "done", ![s].snap = NoData,
                                  ![s].ended = Others(s),
                                  ![s].answer = Response(inflight[s].op, code, msg,
                                                         inflight[s].req, data)]
  /\ res' = Response(inflight[s].op, code, msg, inflight[s].req, data)


(***************************************************************************)
(* Input values of the requests.  A title is a sequence of characters; a   *)
(* content is represented by the two measures the code takes of it.        *)
(***************************************************************************)
TitleHello == <<"A", "b", " ", "!", "1">>
TitleDash == <<"A", "B", "-", "1", "!">>
TitleShort == <<"A", "b">>
TitlePadded == <<" ", "A", "b", " ", "!", "1">>
TitleOther == <<"B", "b", "1", "1", "1">>
Titles == {TitleHello, TitleDash, TitleShort, TitlePadded, TitleOther}

ContentBrief == [chars |-> 900, words |-> 150]
ContentLong == [chars |-> 2600, words |-> 450]
ContentStub == [chars |-> 40, words |-> 8]
Contents == {ContentBrief, ContentLong, ContentStub}

\* a well-formed id that names no document, and a string that is no id at all
GoneId == "000000000000000000000000"
BadId == "not-an-id"
isMongoId(x) == x # BadId

Dates == 0..MaxClock

(***************************************************************************)
(* Post model: slug generation and the pre-save hook.                      *)
(***************************************************************************)
\* the letters that occur in the titles and names of this model
UpperCase == <<"A", "B", "J", "P", "S", "T">>
LowerCase == <<"a", "b", "j", "p", "s", "t">>
OtherLetters == {"c", "e", "g", "h", "i", "l", "m", "n", "o", "r", "v", "y"}

toLowerCase(c) ==
  IF \E i \in DOMAIN UpperCase : UpperCase[i] = c
  THEN LowerCase[CHOOSE i \in DOMAIN UpperCase : UpperCase[i] = c]
  ELSE c

isAlnum(c) == c \in Range(UpperCase) \cup Range(LowerCase) \cup OtherLetters \cup {"1"}

RECURSIVE collapseDashes(_)
collapseDashes(s) ==
  IF Len(s) < 2 THEN s
  ELSE IF s[1] = "-" /\ s[2] = "-" THEN collapseDashes(Tail(s))
  ELSE <<s[1]>> \o collapseDashes(Tail(s))

stripDashes(s) ==
  LET a == IF s # <<>> /\ s[1] = "-" THEN Tail(s) ELSE s
  IN IF a # <<>> /\ a[Len(a)] = "-" THEN SubSeq(a, 1, Len(a) - 1) ELSE a

slugify(title) ==
  LET lower == [i \in DOMAIN title |-> toLowerCase(title[i])]
      dashed == [i \in DOMAIN lower |-> IF isAlnum(lower[i]) THEN lower[i] ELSE "-"]
  IN stripDashes(collapseDashes(dashed))

NoSlug == [base |-> <<>>, stamp |-> 0]

ceilDiv(a, b) == (a + b - 1) \div b

\* postSchema.pre("save"): runs on Post.create and on document.save(), never on
\* findByIdAndUpdate
postPreSave(doc, titleModified, t) ==
  LET slug == IF doc.title # <<>> /\ titleModified
              THEN [base |-> slugify(doc.title), stamp |-> t]
              ELSE doc.slug
      publishedAt == IF doc.status = "published" /\ doc.publishedAt = NoDate
                     THEN t
                     ELSE doc.publishedAt
      readTime == IF doc.content.chars > 0
                  THEN ceilDiv(doc.content.words, WordsPerMinute)
                  ELSE doc.readTime
  IN [doc EXCEPT !.slug = slug, !.publishedAt = publishedAt, !.readTime = readTime]

\* the schema's defaults, before the body is applied
postDefaults ==
  [title |-> <<>>, slug |-> NoSlug, content |-> [chars |-> 0, words |-> 0],
   author |-> 0, category |-> GoneId, tags |-> <<>>, status |-> "draft",
   publishedAt |-> NoDate, views |-> 0, likes |-> <<>>, readTime |-> 1,
   isActive |-> TRUE]

(***************************************************************************)
(* Request validation (express-validator chains): errors.isEmpty().        *)
(***************************************************************************)
createPostValidation(body) ==
  /\ Has(body, "title") /\ Len(body.title) >= MinTitleLen
  /\ Has(body, "content") /\ body.content.chars >= MinContentLen
  /\ Has(body, "category") /\ isMongoId(body.category)
  /\ Has(body, "tags") => \A i \in DOMAIN body.tags : isMongoId(body.tags[i])
  /\ Has(body, "status") => body.status \in PostStatuses

updatePostValidation(body) ==
  /\ Has(body, "title") => Len(body.title) >= MinTitleLen
  /\ Has(body, "content") => body.content.chars >= MinContentLen
  /\ Has(body, "category") => isMongoId(body.category)
  /\ Has(body, "tags") => \A i \in DOMAIN body.tags : isMongoId(body.tags[i])
  /\ Has(body, "status") => body.status \in PostStatuses

(***************************************************************************)
(* Authentication and authorization middleware.                            *)
(***************************************************************************)
\* protect: the caller's token resolves to a stored, active user
protect(caller) == caller \in DOMAIN users /\ users[caller].isActive

reqUser(caller) == [id |-> caller, role |-> users[caller].role]

authorize(user, roles) == user.role \in roles

Reply(op, code, msg, req, data) == res' = Response(op, code, msg, req, data)

Unauthenticated(op, req) == Reply(op, 401, "Not authorized to access this route", req, NoData)

Forbidden(op, req) == Reply(op, 403, "User role is not authorized to access this route", req, NoData)

\* the error middleware's answer to a unique-index violation thrown by the store
DuplicateKey(op, req) == Reply(op, 400, "Duplicate field value entered", req, NoData)

PostFrame ==
  UNCHANGED <<users, categories, tags, comments, nextUserId, nextCommentId, now, inflight>>

ReadFrame ==
  UNCHANGED <<users, categories, tags, posts, comments, nextUserId, nextPostId, nextCommentId,
              now, inflight>>

(***************************************************************************)
(* Post controller.                                                        *)
(***************************************************************************)
isPrivileged(user) == user # NoUser /\ (user.role = "admin" \/ user.role = "editor")

categoryExistsUnchecked(id) == TRUE

\* Category.findById / Tag.find({_id: {$in: ids}}).length
categoryExists(id) == id \in DOMAIN categories

existingTags(ids) == {t \in DOMAIN tags : t \in Range(ids)}

tagsValid(body) ==
  (Has(body, "tags") /\ Len(body.tags) > 0)
    => Cardinality(existingTags(body.tags)) = Len(body.tags)

createPost(user, body) ==
  LET req == Request(user, 0, body)
      doc == postPreSave([Merge(postDefaults, body) EXCEPT !.author = user.id], TRUE, now)
  IN /\ PostFrame
     /\ IF ~createPostValidation(body)
        THEN Reply("createPost", 400, "Validation errors", req, NoData)
             /\ UNCHANGED <<posts, nextPostId>>
        ELSE IF ~categoryExists(body.category)
        THEN Reply("createPost", 400, "Invalid category ID", req, NoData)
             /\ UNCHANGED <<posts, nextPostId>>
        ELSE IF ~tagsValid(body)
        THEN Reply("createPost", 400, "One or more tag IDs are invalid", req, NoData)
             /\ UNCHANGED <<posts, nextPostId>>
        ELSE IF \E p \in DOMAIN posts : posts[p].slug = doc.slug
        THEN DuplicateKey("createPost", req) /\ UNCHANGED <<posts, nextPostId>>
        ELSE /\ nextPostId <= MaxPosts
             /\ posts' = Put(posts, nextPostId, doc)
             /\ nextPostId' = nextPostId + 1
             /\ Reply("createPost", 201, "Post created successfully", req,
                      [id |-> nextPostId])

mayUpdatePostByRoleOnly(post, user) == user.role = "admin" \/ user.role = "editor"

\* ownership or admin/editor role
mayUpdatePost(post, user) ==
  ~(post.author # user.id /\ user.role # "admin" /\ user.role # "editor")

updatePost(user, id, body) ==
  LET req == Request(user, id, body)
  IN /\ PostFrame
     /\ UNCHANGED nextPostId
     /\ IF ~updatePostValidation(body)
        THEN Reply("updatePost", 400, "Validation errors", req, NoData)
             /\ UNCHANGED posts
        ELSE IF id \notin DOMAIN posts
        THEN Reply("updatePost", 404, "Post not found", req, NoData)
             /\ UNCHANGED posts
        ELSE IF ~mayUpdatePost(posts[id], user)
        THEN Reply("updatePost", 403, "Not authorized to update this post", req, NoData)
             /\ UNCHANGED posts
        ELSE IF Has(body, "category") /\ ~categoryExists(body.category)
        THEN Reply("updatePost", 400, "Invalid category ID", req, NoData)
             /\ UNCHANGED posts
        ELSE IF ~tagsValid(body)
        THEN Reply("updatePost", 400, "One or more tag IDs are invalid", req, NoData)
             /\ UNCHANGED posts
        ELSE /\ posts' = Put(posts, id, Merge(posts[id], body))
             /\ Reply("updatePost", 200, "Post updated successfully", req, [id |-> id])

\* ownership or admin role
mayDeletePost(post, user) == ~(post.author # user.id /\ user.role # "admin")

deletePost(user, id) ==
  LET req == Request(user, id, NoData)
  IN /\ PostFrame
     /\ UNCHANGED nextPostId
     /\ IF id \notin DOMAIN posts
        THEN Reply("deletePost", 404, "Post not found", req, NoData)
             /\ UNCHANGED posts
        ELSE IF ~mayDeletePost(posts[id], user)
        THEN Reply("deletePost", 403, "Not authorized to delete this post", req, NoData)
             /\ UNCHANGED posts
        ELSE /\ posts' = Remove(posts, {id})
             /\ Reply("deletePost", 200, "Post deleted successfully", req, NoData)

\* MongooseArray.includes / pull (every matching entry) / push
includes(arr, x) == \E i \in DOMAIN arr : arr[i] = x

pull(arr, x) == SelectSeq(arr, LAMBDA y : y # x)

push(arr, x) == Append(arr, x)

toggleLikes(likes, uid) == IF includes(likes, uid) THEN pull(likes, uid) ELSE push(likes, uid)

toggleLikePost(user, id) ==
  LET req == Request(user, id, NoData)
  IN /\ PostFrame
     /\ UNCHANGED nextPostId
     /\ IF id \notin DOMAIN posts
        THEN Reply("toggleLikePost", 404, "Post not found", req, NoData)
             /\ UNCHANGED posts
        ELSE LET isLiked == includes(posts[id].likes, user.id)
                 likes == toggleLikes(posts[id].likes, user.id)
                 doc == postPreSave([posts[id] EXCEPT !.likes = likes], FALSE, now)
             IN /\ posts' = Put(posts, id, doc)
                /\ Reply("toggleLikePost", 200,
                         IF isLiked THEN "Post unliked successfully"
                         ELSE "Post liked successfully",
                         req, [likes |-> Len(likes), isLiked |-> ~isLiked,
                               before |-> posts[id].likes])

postsQueryAnyActivity(user, query, p) == posts[p].status = "published"

\* the filter getPosts builds from req.user and req.query (the $text search and
\* the date range are not part of the query sets of this model)
postsQuery(user, query, p) ==
  /\ IF ~isPrivileged(user)
     THEN posts[p].status = "published" /\ posts[p].isActive
     ELSE /\ Has(query, "status") => posts[p].status = query.status
          /\ Has(query, "isActive") => posts[p].isActive = (query.isActive = "true")
  /\ Has(query, "category") => posts[p].category = query.category
  /\ Has(query, "tags") => \E i \in DOMAIN posts[p].tags : posts[p].tags[i] \in query.tags
  /\ Has(query, "author") => posts[p].author = query.author

\* the sort key, larger first: publishedAt -1 by default (a missing date sorts
\* lowest), publishedAt 1 for "oldest", views -1 for "popular"
sortKey(query, p) ==
  IF ~Has(query, "sort") THEN posts[p].publishedAt
  ELSE CASE query.sort = "oldest" -> 0 - posts[p].publishedAt
         [] query.sort = "popular" -> posts[p].views
         [] OTHER -> posts[p].publishedAt

RECURSIVE Orderings(_)
Orderings(S) ==
  IF S = {} THEN {<<>>}
  ELSE UNION {{<<x>> \o rest : rest \in Orderings(S \ {x})} : x \in S}

\* every order the store may return the matching ids in under the sort
sortedIds(S, query) ==
  {o \in Orderings(S) :
     \A i, j \in DOMAIN o : i < j => sortKey(query, o[i]) >= sortKey(query, o[j])}

DefaultPage == 1
DefaultLimit == 10

\* .skip(skip).limit(limit)
pageOf(seq, query) ==
  LET page == IF Has(query, "page") THEN query.page ELSE DefaultPage
      limit == IF Has(query, "limit") THEN query.limit ELSE DefaultLimit
      skip == (page - 1) * limit
      last == IF skip + limit < Len(seq) THEN skip + limit ELSE Len(seq)
  IN SubSeq(seq, skip + 1, last)

\* .select("-content"): the list item of a post
listItem(p) ==
  [f \in (DOMAIN posts[p] \ {"content"}) \cup {"id"} |->
     IF f = "id" THEN p ELSE posts[p][f]]

getPosts(user, query) ==
  LET req == Request(user, 0, query)
      matching == {p \in DOMAIN posts : postsQuery(user, query, p)}
  IN /\ ReadFrame
     /\ \E order \in sortedIds(matching, query) :
          LET shown == pageOf(order, query)
          IN Reply("getPosts", 200, "", req,
                   [total |-> Cardinality(matching),
                    items |-> [i \in DOMAIN shown |-> listItem(shown[i])]])

postFoundById(user, id) == id \in DOMAIN posts

\* Post.findOne({_id: id}), with status published and isActive true added to the
\* query for callers that are not admin or editor
postFound(user, id) ==
  /\ id \in DOMAIN posts
  /\ ~isPrivileged(user) => (posts[id].status = "published" /\ posts[id].isActive)

getPost(user, id) ==
  LET req == Request(user, id, NoData)
      found == postFound(user, id)
  IN /\ PostFrame
     /\ UNCHANGED nextPostId
     /\ IF ~found
        THEN Reply("getPost", 404, "Post not found", req, NoData) /\ UNCHANGED posts
        ELSE /\ Reply("getPost", 200, "", req, [id |-> id, views |-> posts[id].views])
             /\ IF ~isPrivileged(user)
                THEN /\ posts[id].views < MaxViews
                     /\ posts' = [posts EXCEPT ![id].views = @ + 1]
                ELSE UNCHANGED posts

(***************************************************************************)
(* Routes of /api/posts: the middleware chain in front of each handler.    *)
(* GET / and GET /:id mount no protect, so req.user is never set there.    *)
(***************************************************************************)
Callers == {0} \cup UserIds

PostsList(caller, query) == getPosts(NoUser, query)

PostsGet(caller, id) == getPost(NoUser, id)

PostsCreate(caller, body) ==
  IF ~protect(caller)
  THEN Unauthenticated("createPost", Request(NoUser, 0, body))
       /\ PostFrame /\ UNCHANGED <<posts, nextPostId>>
  ELSE IF ~authorize(reqUser(caller), {"admin", "editor"})
  THEN Forbidden("createPost", Request(reqUser(caller), 0, body))
       /\ PostFrame /\ UNCHANGED <<posts, nextPostId>>
  ELSE createPost(reqUser(caller), sanitized(body, "title"))

PostsUpdate(caller, id, body) ==
  IF ~protect(caller)
  THEN Unauthenticated("updatePost", Request(NoUser, id, body))
       /\ PostFrame /\ UNCHANGED <<posts, nextPostId>>
  ELSE updatePost(reqUser(caller), id, sanitized(body, "title"))

PostsDelete(caller, id) ==
  IF ~protect(caller)
  THEN Unauthenticated("deletePost", Request(NoUser, id, NoData))
       /\ PostFrame /\ UNCHANGED <<posts, nextPostId>>
  ELSE deletePost(reqUser(caller), id)

PostsLike(caller, id) ==
  IF ~protect(caller)
  THEN Unauthenticated("toggleLikePost", Request(NoUser, id, NoData))
       /\ PostFrame /\ UNCHANGED <<posts, nextPostId>>
  ELSE toggleLikePost(reqUser(caller), id)

(***************************************************************************)
(* Category and tag controllers: the usage-count guard on delete.          *)
(***************************************************************************)
TaxonomyFrame ==
  UNCHANGED <<users, posts, comments, nextUserId, nextPostId, nextCommentId, now, inflight>>

postsUsingCategoryPublished(id) ==
  Cardinality({p \in DOMAIN posts : /\ posts[p].category = id
                                    /\ posts[p].status = "published"
                                    /\ posts[p].isActive})

\* Post.countDocuments({category: id}) and Post.countDocuments({tags: id})
postsUsingCategory(id) == Cardinality({p \in DOMAIN posts : posts[p].category = id})

postsUsingTagFirst(id) ==
  Cardinality({p \in DOMAIN posts : posts[p].tags # <<>> /\ posts[p].tags[1] = id})

postsUsingTag(id) == Cardinality({p \in DOMAIN posts : includes(posts[p].tags, id)})

deleteCategory(user, id) ==
  LET req == Request(user, id, NoData)
  IN /\ TaxonomyFrame
     /\ UNCHANGED tags
     /\ IF id \notin DOMAIN categories
        THEN Reply("deleteCategory", 404, "Category not found", req, NoData)
             /\ UNCHANGED categories
        ELSE IF postsUsingCategory(id) > 0
        THEN Reply("deleteCategory", 400, "Cannot delete category. It is being used", req,
                   [count |-> postsUsingCategory(id)])
             /\ UNCHANGED categories
        ELSE /\ categories' = Remove(categories, {id})
             /\ Reply("deleteCategory", 200, "Category deleted successfully", req, NoData)

deleteTag(user, id) ==
  LET req == Request(user, id, NoData)
  IN /\ TaxonomyFrame
     /\ UNCHANGED categories
     /\ IF id \notin DOMAIN tags
        THEN Reply("deleteTag", 404, "Tag not found", req, NoData)
             /\ UNCHANGED tags
        ELSE IF postsUsingTag(id) > 0
        THEN Reply("deleteTag", 400, "Cannot delete tag. It is being used", req,
                   [count |-> postsUsingTag(id)])
             /\ UNCHANGED tags
        ELSE /\ tags' = Remove(tags, {id})
             /\ Reply("deleteTag", 200, "Tag deleted successfully", req, NoData)

CategoriesDelete(caller, id) ==
  IF ~protect(caller)
  THEN Unauthenticated("deleteCategory", Request(NoUser, id, NoData))
       /\ TaxonomyFrame /\ UNCHANGED <<categories, tags>>
  ELSE IF ~authorize(reqUser(caller), {"admin"})
  THEN Forbidden("deleteCategory", Request(reqUser(caller), id, NoData))
       /\ TaxonomyFrame /\ UNCHANGED <<categories, tags>>
  ELSE deleteCategory(reqUser(caller), id)

TagsDelete(caller, id) ==
  IF ~protect(caller)
  THEN Unauthenticated("deleteTag", Request(NoUser, id, NoData))
       /\ TaxonomyFrame /\ UNCHANGED <<categories, tags>>
  ELSE IF ~authorize(reqUser(caller), {"admin"})
  THEN Forbidden("deleteTag", Request(reqUser(caller), id, NoData))
       /\ TaxonomyFrame /\ UNCHANGED <<categories, tags>>
  ELSE deleteTag(reqUser(caller), id)

(***************************************************************************)
(* Category and tag controllers: create and update.  Both controllers are  *)
(* the same code but for the model and the messages; of a category or tag  *)
(* the model keeps the name, the slug and the active flag.                 *)
(***************************************************************************)
MinNameLen == 2
MaxCategoryNameLen == 50
MaxTagNameLen == 30

\* ids the store hands to new categories and tags; at most MaxTaxa of each are
\* stored at a time, and a new document takes the first id that none carries
MaxTaxa == 2
NewCategoryIds == <<"category-1", "category-2", "category-3">>
NewTagIds == <<"tag-1", "tag-2", "tag-3">>

taxonDefaults == [name |-> <<>>, slug |-> <<>>, isActive |-> TRUE]

\* categorySchema.pre("save") / tagSchema.pre("save"): slug from the name
taxonPreSave(doc) == IF doc.name # <<>> THEN [doc EXCEPT !.slug = slugify(doc.name)] ELSE doc

createTaxonValidation(body, maxLen) ==
  Has(body, "name") /\ Len(body.name) >= MinNameLen /\ Len(body.name) <= maxLen

updateTaxonValidation(body, maxLen) ==
  Has(body, "name") => (Len(body.name) >= MinNameLen /\ Len(body.name) <= maxLen)

\* new RegExp(`^${name}$`, "i"): the name is the pattern, unescaped.  Of the
\* metacharacters the model knows "+" (one or more of the character before it);
\* a pattern with nothing in front of a "+" does not compile.
regexCompiles(pat) ==
  \A i \in DOMAIN pat : pat[i] = "+" => (i > 1 /\ pat[i - 1] # "+")

RECURSIVE regexTest(_, _)
regexTest(pat, str) ==
  IF pat = <<>> THEN str = <<>>
  ELSE IF Len(pat) >= 2 /\ pat[2] = "+"
  THEN /\ str # <<>>
       /\ toLowerCase(str[1]) = toLowerCase(pat[1])
       /\ \/ regexTest(Tail(Tail(pat)), Tail(str))
          \/ regexTest(pat, Tail(str))
  ELSE /\ str # <<>>
       /\ toLowerCase(str[1]) = toLowerCase(pat[1])
       /\ regexTest(Tail(pat), Tail(str))

\* Model.findOne({name: {$regex: new RegExp(`^${name}$`, "i")}})
existingByName(coll, name) == \E x \in DOMAIN coll : regexTest(name, coll[x].name)

\* name.toLowerCase()
lowerName(name) == [i \in DOMAIN name |-> toLowerCase(name[i])]

\* the unique indexes on name and on slug, for document doc stored under id
violatesUnique(coll, id, doc) ==
  \E x \in DOMAIN coll \ {id} : coll[x].name = doc.name \/ coll[x].slug = doc.slug

freeIds(coll, pool) == {i \in 1..MaxTaxa : pool[i] \notin DOMAIN coll}

CategoryMessages ==
  [exists |-> "Category already exists with this name",
   created |-> "Category created successfully",
   updated |-> "Category updated successfully",
   notFound |-> "Category not found"]

TagMessages ==
  [exists |-> "Tag already exists with this name",
   created |-> "Tag created successfully",
   updated |-> "Tag updated successfully",
   notFound |-> "Tag not found"]

\* the request gets as far as Model.create
reachesCreate(coll, maxLen, body) ==
  /\ createTaxonValidation(body, maxLen)
  /\ regexCompiles(body.name)
  /\ ~existingByName(coll, body.name)

\* the outcome of createCategory / createTag on collection coll (a pattern that
\* does not compile throws, which the error middleware answers)
createTaxon(coll, pool, maxLen, body, msgs) ==
  IF ~createTaxonValidation(body, maxLen)
  THEN [code |-> 400, msg |-> "Validation errors", coll |-> coll]
  ELSE IF ~regexCompiles(body.name)
  THEN [code |-> 500, msg |-> "Server Error", coll |-> coll]
  ELSE IF existingByName(coll, body.name)
  THEN [code |-> 400, msg |-> msgs.exists, coll |-> coll]
  ELSE LET doc == taxonPreSave(Merge(taxonDefaults, body))
           id == pool[CHOOSE i \in freeIds(coll, pool) : \A j \in freeIds(coll, pool) : i <= j]
       IN IF violatesUnique(coll, id, doc)
          THEN [code |-> 400, msg |-> "Duplicate field value entered", coll |-> coll]
          ELSE [code |-> 201, msg |-> msgs.created, coll |-> Put(coll, id, doc)]

\* the outcome of updateCategory / updateTag on collection coll
updateTaxon(coll, maxLen, id, body, msgs) ==
  IF ~updateTaxonValidation(body, maxLen)
  THEN [code |-> 400, msg |-> "Validation errors", coll |-> coll]
  ELSE IF id \notin DOMAIN coll
  THEN [code |-> 404, msg |-> msgs.notFound, coll |-> coll]
  ELSE IF /\ Has(body, "name") /\ body.name # <<>>
          /\ lowerName(body.name) # lowerName(coll[id].name)
          /\ ~regexCompiles(body.name)
  THEN [code |-> 500, msg |-> "Server Error", coll |-> coll]
  ELSE IF /\ Has(body, "name") /\ body.name # <<>>
          /\ lowerName(body.name) # lowerName(coll[id].name)
          /\ existingByName(coll, body.name)
  THEN [code |-> 400, msg |-> msgs.exists, coll |-> coll]
  ELSE LET doc == Merge(coll[id], body)
       IN IF violatesUnique(coll, id, doc)
          THEN [code |-> 400, msg |-> "Duplicate field value entered", coll |-> coll]
          ELSE [code |-> 200, msg |-> msgs.updated, coll |-> Put(coll, id, doc)]

createCategory(user, body) ==
  LET out == createTaxon(categories, NewCategoryIds, MaxCategoryNameLen, body,
                         CategoryMessages)
  IN /\ TaxonomyFrame
     /\ UNCHANGED tags
     /\ reachesCreate(categories, MaxCategoryNameLen, body)
          => freeIds(categories, NewCategoryIds) # {}
     /\ categories' = out.coll
     /\ Reply("createCategory", out.code, out.msg, Request(user, 0, body), NoData)

updateCategory(user, id, body) ==
  LET out == updateTaxon(categories, MaxCategoryNameLen, id, body, CategoryMessages)
  IN /\ TaxonomyFrame
     /\ UNCHANGED tags
     /\ categories' = out.coll
     /\ Reply("updateCategory", out.code, out.msg, Request(user, id, body), NoData)

createTag(user, body) ==
  LET out == createTaxon(tags, NewTagIds, MaxTagNameLen, body, TagMessages)
  IN /\ TaxonomyFrame
     /\ UNCHANGED categories
     /\ reachesCreate(tags, MaxTagNameLen, body) => freeIds(tags, NewTagIds) # {}
     /\ tags' = out.coll
     /\ Reply("createTag", out.code, out.msg, Request(user, 0, body), NoData)

updateTag(user, id, body) ==
  LET out == updateTaxon(tags, MaxTagNameLen, id, body, TagMessages)
  IN /\ TaxonomyFrame
     /\ UNCHANGED categories
     /\ tags' = out.coll
     /\ Reply("updateTag", out.code, out.msg, Request(user, id, body), NoData)

\* the denial of the taxonomy routes: protect, then authorize(roles)
TaxonomyDenied(op, caller, id, body) ==
  /\ TaxonomyFrame
  /\ UNCHANGED <<categories, tags>>
  /\ IF ~protect(caller)
     THEN Unauthenticated(op, Request(NoUser, id, body))
     ELSE Forbidden(op, Request(reqUser(caller), id, body))

editorOrAdminAnyRole(caller) == protect(caller)

editorOrAdmin(caller) == protect(caller) /\ authorize(reqUser(caller), {"admin", "editor"})

CategoriesCreate(caller, body) ==
  IF ~editorOrAdmin(caller) THEN TaxonomyDenied("createCategory", caller, 0, body)
  ELSE createCategory(reqUser(caller), sanitized(body, "name"))

CategoriesUpdate(caller, id, body) ==
  IF ~editorOrAdmin(caller) THEN TaxonomyDenied("updateCategory", caller, id, body)
  ELSE updateCategory(reqUser(caller), id, sanitized(body, "name"))

TagsCreate(caller, body) ==
  IF ~editorOrAdmin(caller) THEN TaxonomyDenied("createTag", caller, 0, body)
  ELSE createTag(reqUser(caller), sanitized(body, "name"))

TagsUpdate(caller, id, body) ==
  IF ~editorOrAdmin(caller) THEN TaxonomyDenied("updateTag", caller, id, body)
  ELSE updateTag(reqUser(caller), id, sanitized(body, "name"))

(***************************************************************************)
(* Time: Date.now() between two requests may have advanced.                *)
(***************************************************************************)
Tick ==
  /\ now < MaxClock
  /\ now' = now + 1
  /\ UNCHANGED <<users, categories, tags, posts, comments, nextUserId, nextPostId,
                 nextCommentId, res, inflight>>

(***************************************************************************)
(* The store after the seed script: an admin, an editor and a regular      *)
(* user, the seeded categories and tags, no post and no comment.           *)
(***************************************************************************)
seedUsers ==
  (AdminId :> [role |-> "admin", isActive |-> TRUE, email |-> "admin@blogapi.com"])
  @@ (EditorId :> [role |-> "editor", isActive |-> TRUE, email |-> "editor@blogapi.com"])
  @@ (RegularId :> [role |-> "user", isActive |-> TRUE, email |-> "user@blogapi.com"])

NameTechnology == <<"T", "e", "c", "h", "n", "o", "l", "o", "g", "y">>
NameProgramming == <<"P", "r", "o", "g", "r", "a", "m", "m", "i", "n", "g">>
NameJavaScript == <<"J", "a", "v", "a", "S", "c", "r", "i", "p", "t">>
NamePython == <<"P", "y", "t", "h", "o", "n">>

\* Category.create / Tag.create of the seed script run the pre-save hooks
seedCategories ==
  [c \in CategoryIds |->
     taxonPreSave([name |-> IF c = "technology" THEN NameTechnology ELSE NameProgramming,
                   slug |-> <<>>, isActive |-> TRUE])]

seedTags ==
  [t \in TagIds |->
     taxonPreSave([name |-> IF t = "javascript" THEN NameJavaScript ELSE NamePython,
                   slug |-> <<>>, isActive |-> TRUE])]

Init ==
  /\ users = seedUsers
  /\ categories = seedCategories
  /\ tags = seedTags
  /\ posts = <<>>
  /\ comments = <<>>
  /\ nextUserId = RegularId + 1
  /\ nextPostId = 1
  /\ nextCommentId = 1
  /\ now = 1
  /\ res = Response("none", 0, "", Request(NoUser, 0, NoData), NoData)
  /\ inflight = [s \in Slots |-> Idle]

(***************************************************************************)
(* Comment model and controller.                                           *)
(***************************************************************************)
NoParent == 0
MinCommentLen == 1

CommentNice == <<"o", "k">>
CommentEdited == <<"o", "k", "!">>
CommentBlank == <<" ">>
CommentTexts == {CommentNice, CommentEdited, CommentBlank}

\* a well-formed comment id that no stored comment carries, and a malformed one
GoneCommentId == MaxComments + 1
MalformedCommentId == -1

commentDefaults ==
  [content |-> <<>>, author |-> 0, post |-> 0, parentComment |-> NoParent,
   replies |-> <<>>, likes |-> <<>>, status |-> "approved", isEdited |-> FALSE,
   editedAt |-> NoDate, isActive |-> TRUE, createdAt |-> NoDate]

\* timestamps: true, on a new document: createdAt is set unless the document has one
timestamps(doc, t) == IF doc.createdAt = NoDate THEN [doc EXCEPT !.createdAt = t] ELSE doc

createCommentValidation(body) ==
  /\ Has(body, "content") /\ Len(body.content) >= MinCommentLen
  /\ Has(body, "parentComment") => body.parentComment # MalformedCommentId

updateCommentValidation(body) ==
  Has(body, "content") /\ Len(body.content) >= MinCommentLen

CommentFrame ==
  UNCHANGED <<users, categories, tags, posts, nextUserId, nextPostId, now, inflight>>

pushReplyNever(coll, parent, id) == coll

\* commentSchema.pre("save"), first half: a new reply is pushed onto the replies
\* of its parent (findByIdAndUpdate: nothing happens when no such parent is stored)
pushReply(coll, parent, id) ==
  IF parent # NoParent /\ parent \in DOMAIN coll
  THEN [coll EXCEPT ![parent].replies = Append(@, id)]
  ELSE coll

\* commentSchema.pre("save"), second half: the edit stamp of a stored document
\* whose content was modified
commentPreSave(doc, isNew, contentModified, t) ==
  IF contentModified /\ ~isNew
  THEN [doc EXCEPT !.isEdited = TRUE, !.editedAt = t]
  ELSE doc

parentCommentFoundAnyPost(parent, postId) ==
  /\ parent \in DOMAIN comments
  /\ comments[parent].isActive

\* Comment.findOne({_id: parent, post: postId, isActive: true})
parentCommentFound(parent, postId) ==
  /\ parent \in DOMAIN comments
  /\ comments[parent].post = postId
  /\ comments[parent].isActive

createComment(user, postId, body) ==
  LET req == Request(user, postId, body)
      parent == IF Has(body, "parentComment") THEN body.parentComment ELSE NoParent
      doc == commentPreSave(
               timestamps([Merge(commentDefaults, body) EXCEPT !.author = user.id,
                                                               !.post = postId], now),
               TRUE, TRUE, now)
  IN /\ CommentFrame
     /\ IF ~createCommentValidation(body)
        THEN Reply("createComment", 400, "Validation errors", req, NoData)
             /\ UNCHANGED <<comments, nextCommentId>>
        ELSE IF ~(postId \in DOMAIN posts /\ posts[postId].status = "published"
                  /\ posts[postId].isActive)
        THEN Reply("createComment", 404, "Published post not found", req, NoData)
             /\ UNCHANGED <<comments, nextCommentId>>
        ELSE IF parent # NoParent /\ ~parentCommentFound(parent, postId)
        THEN Reply("createComment", 400, "Invalid parent comment ID", req, NoData)
             /\ UNCHANGED <<comments, nextCommentId>>
        ELSE /\ nextCommentId <= MaxComments
             /\ comments' = Put(pushReply(comments, parent, nextCommentId), nextCommentId, doc)
             /\ nextCommentId' = nextCommentId + 1
             /\ Reply("createComment", 201, "Comment created successfully", req,
                      [id |-> nextCommentId])

commentsQueryAnyStatus(user, postId, query, c) ==
  /\ comments[c].post = postId
  /\ comments[c].parentComment = NoParent
  /\ comments[c].isActive

\* the query getComments builds: the top-level, active comments of the post, for
\* admin/editor of the status the request names (if any), for others approved
commentsQuery(user, postId, query, c) ==
  /\ comments[c].post = postId
  /\ comments[c].parentComment = NoParent
  /\ comments[c].isActive
  /\ IF isPrivileged(user)
     THEN Has(query, "status") => comments[c].status = query.status
     ELSE comments[c].status = "approved"

\* .sort({createdAt: -1}): every order the store may return the ids in
newestFirst(S) ==
  {o \in Orderings(S) :
     \A i, j \in DOMAIN o : i < j => comments[o[i]].createdAt >= comments[o[j]].createdAt}

\* populate({path: "replies", match: {isActive: true, status: "approved"}}): the
\* stored documents the ids name that match; an id that names none is dropped
populateReplies(ids) ==
  LET kept == SelectSeq(ids, LAMBDA r : /\ r \in DOMAIN comments
                                        /\ comments[r].isActive
                                        /\ comments[r].status = "approved")
  IN [i \in DOMAIN kept |->
        [id |-> kept[i], post |-> comments[kept[i]].post,
         status |-> comments[kept[i]].status, isActive |-> comments[kept[i]].isActive]]

commentItem(c) ==
  [id |-> c, post |-> comments[c].post, parentComment |-> comments[c].parentComment,
   status |-> comments[c].status, isActive |-> comments[c].isActive,
   replies |-> populateReplies(comments[c].replies)]

getComments(user, postId, query) ==
  LET req == Request(user, postId, query)
      matching == {c \in DOMAIN comments : commentsQuery(user, postId, query, c)}
  IN /\ CommentFrame
     /\ UNCHANGED <<comments, nextCommentId>>
     /\ IF postId \notin DOMAIN posts
        THEN Reply("getComments", 404, "Post not found", req, NoData)
        ELSE \E order \in newestFirst(matching) :
               LET shown == pageOf(order, query)
               IN Reply("getComments", 200, "", req,
                        [total |-> Cardinality(matching),
                         items |-> [i \in DOMAIN shown |-> commentItem(shown[i])]])

mayUpdateComment(comment, user) ==
  ~(comment.author # user.id /\ user.role # "admin" /\ user.role # "editor")

\* only content for regular users; admin/editor may also set status
commentUpdateData(user, body) ==
  IF (user.role = "admin" \/ user.role = "editor") /\ Has(body, "status")
  THEN [content |-> body.content, status |-> body.status]
  ELSE [content |-> body.content]

updateComment(user, id, body) ==
  LET req == Request(user, id, body)
  IN /\ CommentFrame
     /\ UNCHANGED nextCommentId
     /\ IF ~updateCommentValidation(body)
        THEN Reply("updateComment", 400, "Validation errors", req, NoData)
             /\ UNCHANGED comments
        ELSE IF id \notin DOMAIN comments
        THEN Reply("updateComment", 404, "Comment not found", req, NoData)
             /\ UNCHANGED comments
        ELSE IF ~mayUpdateComment(comments[id], user)
        THEN Reply("updateComment", 403, "Not authorized to update this comment", req, NoData)
             /\ UNCHANGED comments
        ELSE IF Has(commentUpdateData(user, body), "status")
                /\ body.status \notin CommentStatuses
        THEN Reply("updateComment", 400, "Validation failed", req, NoData)
             /\ UNCHANGED comments
        ELSE /\ comments' = Put(comments, id, Merge(comments[id], commentUpdateData(user, body)))
             /\ Reply("updateComment", 200, "Comment updated successfully", req, [id |-> id])

mayDeleteCommentAsUpdate(comment, user) == mayUpdateComment(comment, user)

mayDeleteComment(comment, user) == ~(comment.author # user.id /\ user.role # "admin")

deletedAlone(id) == {id}

\* Comment.deleteMany({parentComment: id}), then Comment.findByIdAndDelete(id)
deletedWith(id) == {id} \cup {c \in DOMAIN comments : comments[c].parentComment = id}

deleteComment(user, id) ==
  LET req == Request(user, id, NoData)
  IN /\ CommentFrame
     /\ UNCHANGED nextCommentId
     /\ IF id \notin DOMAIN comments
        THEN Reply("deleteComment", 404, "Comment not found", req, NoData)
             /\ UNCHANGED comments
        ELSE IF ~mayDeleteComment(comments[id], user)
        THEN Reply("deleteComment", 403, "Not authorized to delete this comment", req, NoData)
             /\ UNCHANGED comments
        ELSE /\ comments' = Remove(comments, deletedWith(id))
             /\ Reply("deleteComment", 200, "Comment deleted successfully", req, NoData)

toggleLikeComment(user, id) ==
  LET req == Request(user, id, NoData)
  IN /\ CommentFrame
     /\ UNCHANGED nextCommentId
     /\ IF id \notin DOMAIN comments
        THEN Reply("toggleLikeComment", 404, "Comment not found", req, NoData)
             /\ UNCHANGED comments
        ELSE LET isLiked == includes(comments[id].likes, user.id)
                 likes == toggleLikes(comments[id].likes, user.id)
                 doc == commentPreSave([comments[id] EXCEPT !.likes = likes], FALSE, FALSE, now)
             IN /\ comments' = Put(comments, id, doc)
                /\ Reply("toggleLikeComment", 200,
                         IF isLiked THEN "Comment unliked successfully"
                         ELSE "Comment liked successfully",
                         req, [likes |-> Len(likes), isLiked |-> ~isLiked,
                               before |-> comments[id].likes])

moderationStatusAnyOfSchema(body) == Has(body, "status") /\ body.status \in CommentStatuses

\* ["approved", "rejected"].includes(req.body.status)
moderationStatus(body) == Has(body, "status") /\ body.status \in {"approved", "rejected"}

moderateComment(user, id, body) ==
  LET req == Request(user, id, body)
  IN /\ CommentFrame
     /\ UNCHANGED nextCommentId
     /\ IF ~moderationStatus(body)
        THEN Reply("moderateComment", 400, "Status must be either approved or rejected",
                   req, NoData)
             /\ UNCHANGED comments
        ELSE IF id \notin DOMAIN comments
        THEN Reply("moderateComment", 404, "Comment not found", req, NoData)
             /\ UNCHANGED comments
        ELSE /\ comments' = Put(comments, id,
                                commentPreSave([comments[id] EXCEPT !.status = body.status],
                                               FALSE, FALSE, now))
             /\ Reply("moderateComment", 200,
                      IF body.status = "approved" THEN "Comment approved successfully"
                      ELSE "Comment rejected successfully",
                      req, [id |-> id])

\* routes of /api/posts/:postId/comments and /api/comments; the GET mounts no
\* protect, so req.user is never set there
CommentsList(caller, postId, query) == getComments(NoUser, postId, query)

CommentsCreate(caller, postId, body) ==
  IF ~protect(caller)
  THEN Unauthenticated("createComment", Request(NoUser, postId, body))
       /\ CommentFrame /\ UNCHANGED <<comments, nextCommentId>>
  ELSE createComment(reqUser(caller), postId, sanitized(body, "content"))

CommentsUpdate(caller, id, body) ==
  IF ~protect(caller)
  THEN Unauthenticated("updateComment", Request(NoUser, id, body))
       /\ CommentFrame /\ UNCHANGED <<comments, nextCommentId>>
  ELSE updateComment(reqUser(caller), id, sanitized(body, "content"))

CommentsDelete(caller, id) ==
  IF ~protect(caller)
  THEN Unauthenticated("deleteComment", Request(NoUser, id, NoData))
       /\ CommentFrame /\ UNCHANGED <<comments, nextCommentId>>
  ELSE deleteComment(reqUser(caller), id)

CommentsLike(caller, id) ==
  IF ~protect(caller)
  THEN Unauthenticated("toggleLikeComment", Request(NoUser, id, NoData))
       /\ CommentFrame /\ UNCHANGED <<comments, nextCommentId>>
  ELSE toggleLikeComment(reqUser(caller), id)

CommentsModerate(caller, id, body) ==
  IF ~protect(caller)
  THEN Unauthenticated("moderateComment", Request(NoUser, id, body))
       /\ CommentFrame /\ UNCHANGED <<comments, nextCommentId>>
  ELSE IF ~authorize(reqUser(caller), {"admin", "editor"})
  THEN Forbidden("moderateComment", Request(reqUser(caller), id, body))
       /\ CommentFrame /\ UNCHANGED <<comments, nextCommentId>>
  ELSE moderateComment(reqUser(caller), id, body)

(***************************************************************************)
(* User controller (admin only).  Of a user the model keeps the role, the  *)
(* active flag and the email.                                              *)
(***************************************************************************)
Emails == {"admin@blogapi.com", "editor@blogapi.com", "user@blogapi.com", "new@blogapi.com"}
BadEmail == "not-an-email"

userDefaults == [role |-> "user", isActive |-> TRUE, email |-> ""]

registerValidation(body) ==
  /\ Has(body, "email") /\ body.email \in Emails
  /\ Has(body, "role") => body.role \in Roles

updateUserValidation(body) ==
  /\ Has(body, "email") => body.email \in Emails
  /\ Has(body, "role") => body.role \in Roles
  /\ Has(body, "isActive") => body.isActive \in BOOLEAN

UserFrame ==
  UNCHANGED <<categories, tags, posts, comments, nextPostId, nextCommentId, now, inflight>>

emailTaken(email) == \E u \in DOMAIN users : users[u].email = email

createUser(user, body) ==
  LET req == Request(user, 0, body)
  IN /\ UserFrame
     /\ IF ~registerValidation(body)
        THEN Reply("createUser", 400, "Validation errors", req, NoData)
             /\ UNCHANGED <<users, nextUserId>>
        ELSE IF emailTaken(body.email)
        THEN Reply("createUser", 400, "User already exists with this email", req, NoData)
             /\ UNCHANGED <<users, nextUserId>>
        ELSE /\ nextUserId <= MaxUsers
             /\ users' = Put(users, nextUserId, Merge(userDefaults, body))
             /\ nextUserId' = nextUserId + 1
             /\ Reply("createUser", 201, "User created successfully", req,
                      [id |-> nextUserId])

updateUser(user, id, body) ==
  LET req == Request(user, id, body)
  IN /\ UserFrame
     /\ UNCHANGED nextUserId
     /\ IF ~updateUserValidation(body)
        THEN Reply("updateUser", 400, "Validation errors", req, NoData) /\ UNCHANGED users
        ELSE IF id \notin DOMAIN users
        THEN Reply("updateUser", 404, "User not found", req, NoData) /\ UNCHANGED users
        ELSE IF Has(body, "email") /\ body.email # users[id].email /\ emailTaken(body.email)
        THEN Reply("updateUser", 400, "User already exists with this email", req, NoData)
             /\ UNCHANGED users
        ELSE /\ users' = Put(users, id, Merge(users[id], body))
             /\ Reply("updateUser", 200, "User updated successfully", req, [id |-> id])

\* POST /api/auth/register, public: the handler takes name, email, password and role
\* from the body
register(body) ==
  LET req == Request(NoUser, 0, body)
  IN /\ UserFrame
     /\ IF ~registerValidation(body)
        THEN Reply("register", 400, "Validation errors", req, NoData)
             /\ UNCHANGED <<users, nextUserId>>
        ELSE IF emailTaken(body.email)
        THEN Reply("register", 400, "User already exists with this email", req, NoData)
             /\ UNCHANGED <<users, nextUserId>>
        ELSE /\ nextUserId <= MaxUsers
             /\ users' = Put(users, nextUserId,
                             Merge(userDefaults,
                                   [email |-> body.email,
                                    role |-> IF Has(body, "role") THEN body.role
                                             ELSE "user"]))
             /\ nextUserId' = nextUserId + 1
             /\ Reply("register", 201, "User registered successfully", req,
                      [id |-> nextUserId])

AuthRegister(body) == register(body)

deleteUserAnyTarget(user, id) ==
  LET req == Request(user, id, NoData)
  IN /\ UserFrame
     /\ UNCHANGED nextUserId
     /\ IF id \notin DOMAIN users
        THEN Reply("deleteUser", 404, "User not found", req, NoData) /\ UNCHANGED users
        ELSE /\ users' = Remove(users, {id})
             /\ Reply("deleteUser", 200, "User deleted successfully", req, NoData)

deleteUser(user, id) ==
  LET req == Request(user, id, NoData)
  IN /\ UserFrame
     /\ UNCHANGED nextUserId
     /\ IF id \notin DOMAIN users
        THEN Reply("deleteUser", 404, "User not found", req, NoData) /\ UNCHANGED users
        ELSE IF id = user.id
        THEN Reply("deleteUser", 400, "Admin cannot delete their own account", req, NoData)
             /\ UNCHANGED users
        ELSE /\ users' = Remove(users, {id})
             /\ Reply("deleteUser", 200, "User deleted successfully", req, NoData)

toggleUserStatus(user, id) ==
  LET req == Request(user, id, NoData)
  IN /\ UserFrame
     /\ UNCHANGED nextUserId
     /\ IF id \notin DOMAIN users
        THEN Reply("toggleUserStatus", 404, "User not found", req, NoData) /\ UNCHANGED users
        ELSE IF id = user.id
        THEN Reply("toggleUserStatus", 400, "Admin cannot deactivate their own account",
                   req, NoData)
             /\ UNCHANGED users
        ELSE /\ users' = [users EXCEPT ![id].isActive = ~@]
             /\ Reply("toggleUserStatus", 200,
                      IF ~users[id].isActive THEN "User activated successfully"
                      ELSE "User deactivated successfully",
                      req, [isActive |-> ~users[id].isActive])

\* router.use(protect); router.use(authorize("admin")) in front of every
\* /api/users handler
adminOnly(caller) == protect(caller) /\ authorize(reqUser(caller), {"admin"})

UsersDenied(op, caller, id, body) ==
  /\ UserFrame
  /\ UNCHANGED <<users, nextUserId>>
  /\ IF ~protect(caller)
     THEN Unauthenticated(op, Request(NoUser, id, body))
     ELSE Forbidden(op, Request(reqUser(caller), id, body))

UsersCreate(caller, body) ==
  IF ~adminOnly(caller) THEN UsersDenied("createUser", caller, 0, body)
  ELSE createUser(reqUser(caller), body)

UsersUpdate(caller, id, body) ==
  IF ~adminOnly(caller) THEN UsersDenied("updateUser", caller, id, body)
  ELSE updateUser(reqUser(caller), id, body)

UsersDelete(caller, id) ==
  IF ~adminOnly(caller) THEN UsersDenied("deleteUser", caller, id, NoData)
  ELSE deleteUser(reqUser(caller), id)

UsersToggleStatus(caller, id) ==
  IF ~adminOnly(caller) THEN UsersDenied("toggleUserStatus", caller, id, NoData)
  ELSE toggleUserStatus(reqUser(caller), id)

(***************************************************************************)
(* Toggle-like, step by step: findById, then save().  save() sends the     *)
(* change made to the array in memory ($push of the id, or $pull of it) to *)
(* the store, which applies it to the array it holds at that moment.       *)
(***************************************************************************)
RaceFrame ==
  UNCHANGED <<users, categories, tags, nextUserId, nextPostId, nextCommentId, now>>

saveLikesAsSet(stored, isLiked, uid) ==
  IF isLiked THEN pull(stored, uid)
  ELSE IF includes(stored, uid) THEN stored ELSE push(stored, uid)

\* the update save() sends for likes, applied to the stored array
saveLikes(stored, isLiked, uid) == IF isLiked THEN pull(stored, uid) ELSE push(stored, uid)

\* save() of a post read as snap and changed to doc: likes as above, and a $set of
\* the paths the pre-save hook changed
savedPost(stored, snap, doc, uid) ==
  [stored EXCEPT !.likes = saveLikes(@, includes(snap.likes, uid), uid),
                 !.publishedAt = IF doc.publishedAt # snap.publishedAt
                                 THEN doc.publishedAt ELSE @,
                 !.readTime = IF doc.readTime # snap.readTime THEN doc.readTime ELSE @]

savedComment(stored, snap, uid) ==
  [stored EXCEPT !.likes = saveLikes(@, includes(snap.likes, uid), uid)]

\* toggleLikePost up to Post.findById
toggleLikePostRead(s, user, id) ==
  LET req == Request(user, id, NoData)
  IN /\ RaceFrame
     /\ UNCHANGED <<posts, comments>>
     /\ IF id \notin DOMAIN posts
        THEN Answer(s, "toggleLikePost", 404, "Post not found", req, NoData)
        ELSE Begin(s, "toggleLikePost", "read", req, posts[id])

\* toggleLikePost from post.save() on (a save() that finds its document gone throws)
toggleLikePostSave(s) ==
  LET snap == inflight[s].snap
      uid == inflight[s].req.user.id
      id == inflight[s].req.id
      isLiked == includes(snap.likes, uid)
      likes == toggleLikes(snap.likes, uid)
      doc == postPreSave([snap EXCEPT !.likes = likes], FALSE, now)
  IN /\ inflight[s].pc = "read"
     /\ inflight[s].op = "toggleLikePost"
     /\ RaceFrame
     /\ UNCHANGED comments
     /\ IF id \notin DOMAIN posts
        THEN Finish(s, 500, "Server Error", NoData) /\ UNCHANGED posts
        ELSE /\ posts' = Put(posts, id, savedPost(posts[id], snap, doc, uid))
             /\ Finish(s, 200,
                       IF isLiked THEN "Post unliked successfully"
                       ELSE "Post liked successfully",
                       [likes |-> Len(likes), isLiked |-> ~isLiked])

\* toggleLikeComment up to Comment.findById
toggleLikeCommentRead(s, user, id) ==
  LET req == Request(user, id, NoData)
  IN /\ RaceFrame
     /\ UNCHANGED <<posts, comments>>
     /\ IF id \notin DOMAIN comments
        THEN Answer(s, "toggleLikeComment", 404, "Comment not found", req, NoData)
        ELSE Begin(s, "toggleLikeComment", "read", req, comments[id])

\* toggleLikeComment from comment.save() on
toggleLikeCommentSave(s) ==
  LET snap == inflight[s].snap
      uid == inflight[s].req.user.id
      id == inflight[s].req.id
      isLiked == includes(snap.likes, uid)
      likes == toggleLikes(snap.likes, uid)
  IN /\ inflight[s].pc = "read"
     /\ inflight[s].op = "toggleLikeComment"
     /\ RaceFrame
     /\ UNCHANGED posts
     /\ IF id \notin DOMAIN comments
        THEN Finish(s, 500, "Server Error", NoData) /\ UNCHANGED comments
        ELSE /\ comments' = Put(comments, id, savedComment(comments[id], snap, uid))
             /\ Finish(s, 200,
                       IF isLiked THEN "Comment unliked successfully"
                       ELSE "Comment liked successfully",
                       [likes |-> Len(likes), isLiked |-> ~isLiked])

\* a request arrives and takes the first free slot; protect runs before the handler
Arrives(s, caller) ==
  /\ ~InFlight(s)
  /\ \A x \in Slots : x < s => InFlight(x)
  /\ protect(caller)

PostsLikeRead(s, caller, id) == Arrives(s, caller) /\ toggleLikePostRead(s, reqUser(caller), id)

CommentsLikeRead(s, caller, id) ==
  Arrives(s, caller) /\ toggleLikeCommentRead(s, reqUser(caller), id)

(***************************************************************************)
(* createPost, updatePost and deleteCategory, step by step: one step per   *)
(* store operation (Category.findById, Tag.find, Post.create, ...).        *)
(***************************************************************************)
StepFrame == UNCHANGED <<users, tags, comments, nextUserId, nextCommentId, now>>

\* req.body.tags && req.body.tags.length > 0
hasTags(body) == Has(body, "tags") /\ Len(body.tags) > 0

\* createPost up to Category.findById
createPostCategory(s, user, body) ==
  LET req == Request(user, 0, body)
  IN /\ StepFrame
     /\ UNCHANGED <<posts, nextPostId, categories>>
     /\ IF ~createPostValidation(body)
        THEN Answer(s, "createPost", 400, "Validation errors", req, NoData)
        ELSE IF ~categoryExists(body.category)
        THEN Answer(s, "createPost", 400, "Invalid category ID", req, NoData)
        ELSE Begin(s, "createPost", "checked", req, NoData)

\* updatePost up to Post.findById and the ownership check; the next store operation
\* is Category.findById if the body names a category
updatePostFind(s, user, id, body) ==
  LET req == Request(user, id, body)
  IN /\ StepFrame
     /\ UNCHANGED <<posts, nextPostId, categories>>
     /\ IF ~updatePostValidation(body)
        THEN Answer(s, "updatePost", 400, "Validation errors", req, NoData)
        ELSE IF id \notin DOMAIN posts
        THEN Answer(s, "updatePost", 404, "Post not found", req, NoData)
        ELSE IF ~mayUpdatePost(posts[id], user)
        THEN Answer(s, "updatePost", 403, "Not authorized to update this post", req, NoData)
        ELSE Begin(s, "updatePost", IF Has(body, "category") THEN "found" ELSE "checked",
                   req, NoData)

\* updatePost at Category.findById
updatePostCategory(s) ==
  /\ inflight[s].op = "updatePost"
  /\ inflight[s].pc = "found"
  /\ StepFrame
  /\ UNCHANGED <<posts, nextPostId, categories>>
  /\ IF ~categoryExists(inflight[s].req.body.category)
     THEN Finish(s, 400, "Invalid category ID", NoData)
     ELSE Resume(s, "checked", NoData)

\* createPost and updatePost at Tag.find
postTags(s) ==
  /\ inflight[s].op \in {"createPost", "updatePost"}
  /\ inflight[s].pc = "checked"
  /\ hasTags(inflight[s].req.body)
  /\ StepFrame
  /\ UNCHANGED <<posts, nextPostId, categories>>
  /\ IF ~tagsValid(inflight[s].req.body)
     THEN Finish(s, 400, "One or more tag IDs are invalid", NoData)
     ELSE Resume(s, "verified", NoData)

\* the checks of the handler in slot s are done: its next store operation is the write
readyToWrite(s) ==
  \/ inflight[s].pc = "verified"
  \/ inflight[s].pc = "checked" /\ ~hasTags(inflight[s].req.body)

createPostWriteChecked(s) ==
  /\ inflight[s].op = "createPost"
  /\ readyToWrite(s)
  /\ StepFrame
  /\ UNCHANGED <<posts, nextPostId, categories>>
  /\ Finish(s, 400, "Invalid category ID", NoData)

\* createPost from Post.create on
createPostWrite(s) ==
  LET body == inflight[s].req.body
      doc == postPreSave([Merge(postDefaults, body) EXCEPT !.author = inflight[s].req.user.id],
                         TRUE, now)
  IN /\ inflight[s].op = "createPost"
     /\ readyToWrite(s)
     /\ StepFrame
     /\ UNCHANGED categories
     /\ IF \E p \in DOMAIN posts : posts[p].slug = doc.slug
        THEN Finish(s, 400, "Duplicate field value entered", NoData)
             /\ UNCHANGED <<posts, nextPostId>>
        ELSE /\ nextPostId <= MaxPosts
             /\ posts' = Put(posts, nextPostId, doc)
             /\ nextPostId' = nextPostId + 1
             /\ Finish(s, 201, "Post created successfully", [id |-> nextPostId])

\* updatePost from Post.findByIdAndUpdate on (null, and still 200, when the post is
\* gone by now)
updatePostWrite(s) ==
  LET id == inflight[s].req.id
  IN /\ inflight[s].op = "updatePost"
     /\ readyToWrite(s)
     /\ StepFrame
     /\ UNCHANGED <<categories, nextPostId>>
     /\ IF id \notin DOMAIN posts
        THEN Finish(s, 200, "Post updated successfully", NoData) /\ UNCHANGED posts
        ELSE /\ posts' = Put(posts, id, Merge(posts[id], inflight[s].req.body))
             /\ Finish(s, 200, "Post updated successfully", [id |-> id])

\* deleteCategory up to Category.findById
deleteCategoryFind(s, user, id) ==
  LET req == Request(user, id, NoData)
  IN /\ StepFrame
     /\ UNCHANGED <<posts, nextPostId, categories>>
     /\ IF id \notin DOMAIN categories
        THEN Answer(s, "deleteCategory", 404, "Category not found", req, NoData)
        ELSE Begin(s, "deleteCategory", "found", req, NoData)

\* deleteCategory at Post.countDocuments
deleteCategoryCount(s) ==
  /\ inflight[s].op = "deleteCategory"
  /\ inflight[s].pc = "found"
  /\ StepFrame
  /\ UNCHANGED <<posts, nextPostId, categories>>
  /\ IF postsUsingCategory(inflight[s].req.id) > 0
     THEN Finish(s, 400, "Cannot delete category. It is being used",
                 [count |-> postsUsingCategory(inflight[s].req.id)])
     ELSE Resume(s, "counted", NoData)

\* deleteCategory from Category.findByIdAndDelete on
deleteCategoryRemove(s) ==
  /\ inflight[s].op = "deleteCategory"
  /\ inflight[s].pc = "counted"
  /\ StepFrame
  /\ UNCHANGED <<posts, nextPostId>>
  /\ categories' = Remove(categories, {inflight[s].req.id})
  /\ Finish(s, 200, "Category deleted successfully", NoData)

\* the routes, for a caller that protect and authorize let through
PostsCreateBegin(s, caller, body) ==
  /\ Arrives(s, caller)
  /\ authorize(reqUser(caller), {"admin", "editor"})
  /\ createPostCategory(s, reqUser(caller), sanitized(body, "title"))

PostsUpdateBegin(s, caller, id, body) ==
  Arrives(s, caller) /\ updatePostFind(s, reqUser(caller), id, sanitized(body, "title"))

CategoriesDeleteBegin(s, caller, id) ==
  /\ Arrives(s, caller)
  /\ authorize(reqUser(caller), {"admin"})
  /\ deleteCategoryFind(s, reqUser(caller), id)

(***************************************************************************)
(* SpecPublish: posts created and updated by an editor and a regular user, *)
(* with time passing between the requests.                                 *)
(***************************************************************************)
ValidPost == [title |-> TitleHello, content |-> ContentBrief, category |-> "technology"]

PublishCallers == {EditorId, RegularId}

PublishCreateBodies == {ValidPost, ValidPost @@ [status |-> "published"]}

PublishUpdateBodies ==
  {[status |-> s] : s \in PostStatuses} \cup {[title |-> TitleDash], [publishedAt |-> NoDate]}

PublishCreate == \E c \in PublishCallers, b \in PublishCreateBodies : PostsCreate(c, b)

PublishUpdate ==
  \E c \in PublishCallers, id \in PostIds, b \in PublishUpdateBodies : PostsUpdate(c, id, b)

NextPublish == PublishCreate \/ PublishUpdate \/ Tick

SpecPublish == Init /\ [][NextPublish]_vars

\* C1, first half: every stored post whose status is published has publishedAt set.
C1_PublishedHasDate ==
  \A p \in DOMAIN posts : posts[p].status = "published" => posts[p].publishedAt # NoDate

\* C1, second half: a successful update that leaves the status of a post as it was
\* leaves a publishedAt that was set as it was.
C1_DateKept ==
  \A p \in DOMAIN posts :
    (/\ res'.op = "updatePost" /\ res'.code = 200 /\ res'.req.id = p
     /\ posts[p].publishedAt # NoDate
     /\ posts'[p].status = posts[p].status)
      => posts'[p].publishedAt = posts[p].publishedAt

\* C1: in every state reachable by post create and post update operations a
\* published post has publishedAt set, and a set publishedAt is neither changed nor
\* cleared by a later update that does not change the status.
C1_PublishedAtSetOnce == []C1_PublishedHasDate /\ [][C1_DateKept]_vars

(***************************************************************************)
(* SpecEdit: posts created by editors and edited by their owners and by    *)
(* others, with bodies that fail validation or name a missing category.    *)
(***************************************************************************)
EditCallers == {0, EditorId, RegularId}

EditCreateBodies ==
  {[title |-> t, content |-> ContentBrief, category |-> c] :
     t \in {TitleHello, TitleOther, TitleShort}, c \in {"technology", GoneId}}

EditUpdateBodies ==
  {[title |-> TitleDash], [title |-> TitleShort], [author |-> RegularId],
   [category |-> GoneId], [category |-> "programming", tags |-> <<"javascript", GoneId>>]}

EditCreate == \E c \in EditCallers, b \in EditCreateBodies : PostsCreate(c, b)

EditUpdate == \E c \in EditCallers, id \in PostIds, b \in EditUpdateBodies : PostsUpdate(c, id, b)

NextEdit == EditCreate \/ EditUpdate

SpecEdit == Init /\ [][NextEdit]_vars

\* the request the last step answered reached the handler (no 401/403 of the
\* middleware in front of it) and named a category that is not stored
C9_Case ==
  /\ res'.op = "createPost"
  /\ res'.req.user.role \in {"admin", "editor"}
  /\ Has(res'.req.body, "category")
  /\ res'.req.body.category \notin DOMAIN categories

C9_Rejected ==
  res'.code = 400 /\ res'.msg = "Invalid category ID" /\ posts' = posts

\* C9 as stated: createPost with a category id that references no stored category
\* returns 400 with the invalid-category message, and the stored posts are unchanged.
C9_InvalidCategoryRejected == [][C9_Case => C9_Rejected]_vars

\* C9 as amended: the same for a body that passes createPostValidation; a body that
\* fails it is answered 400 "Validation errors", also without a post being stored.
C9_ValidBodyInvalidCategory ==
  [][C9_Case =>
       /\ res'.code = 400 /\ posts' = posts
       /\ createPostValidation(res'.req.body) => res'.msg = "Invalid category ID"
       /\ ~createPostValidation(res'.req.body) => res'.msg = "Validation errors"]_vars

C9_Witness ==
  /\ res.op = "createPost" /\ res.code = 400 /\ res.msg = "Invalid category ID"
  /\ res.req.body.category \notin DOMAIN categories
  /\ posts # <<>>

\* the last step answered an updatePost of a user-role caller for a stored post
C10_ByUser ==
  /\ res'.op = "updatePost"
  /\ res'.req.user.role = "user"
  /\ res'.req.id \in DOMAIN posts

C10_ValidData ==
  /\ updatePostValidation(res'.req.body)
  /\ Has(res'.req.body, "category") => res'.req.body.category \in DOMAIN categories
  /\ tagsValid(res'.req.body)

C10_OwnApplied ==
  (C10_ByUser /\ posts[res'.req.id].author = res'.req.user.id /\ C10_ValidData)
    => /\ res'.code = 200
       /\ posts' = Put(posts, res'.req.id, Merge(posts[res'.req.id], res'.req.body))

\* C10 as stated: a user-role caller's updatePost on a post of another author is
\* answered 403 and leaves the posts unchanged; on a post of their own, with valid
\* data, it succeeds and the update is applied.
C10_OwnerOnlyUpdate ==
  [][/\ (C10_ByUser /\ posts[res'.req.id].author # res'.req.user.id)
          => (res'.code = 403 /\ posts' = posts)
     /\ C10_OwnApplied]_vars

\* C10 as amended: the 403 is the answer when the body passes updatePostValidation;
\* a body that fails it is answered 400 before the ownership check.  Either way the
\* posts are unchanged.
C10_OwnerOnlyUpdateValidated ==
  [][/\ (C10_ByUser /\ posts[res'.req.id].author # res'.req.user.id)
          => /\ posts' = posts
             /\ res'.code = IF updatePostValidation(res'.req.body) THEN 403 ELSE 400
     /\ C10_OwnApplied]_vars

C10_Witness ==
  /\ res.op = "updatePost" /\ res.code = 200 /\ res.req.user.role = "user"
  /\ \E p \in DOMAIN posts : posts[p].author # res.req.user.id

(***************************************************************************)
(* SpecTaxonomy: posts that reference categories and tags, and the delete  *)
(* requests for categories and tags.                                       *)
(***************************************************************************)
TaxonomyCreateBodies ==
  {[title |-> TitleHello, content |-> ContentBrief, category |-> "technology"],
   [title |-> TitleOther, content |-> ContentBrief, category |-> "programming",
    tags |-> <<"javascript">>],
   [title |-> TitleOther, content |-> ContentBrief, category |-> "technology",
    tags |-> <<"python", "javascript">>, status |-> "published"]}

TaxonomyUpdateBodies ==
  {[isActive |-> FALSE], [status |-> "archived"], [category |-> "programming"],
   [tags |-> <<>>]}

TaxonomyAdmins == {AdminId, EditorId}

TaxonomyCreate == \E b \in TaxonomyCreateBodies : PostsCreate(EditorId, b)

TaxonomyUpdate == \E id \in PostIds, b \in TaxonomyUpdateBodies : PostsUpdate(EditorId, id, b)

TaxonomyDeletePost == \E id \in PostIds : PostsDelete(EditorId, id)

TaxonomyDeleteCategory == \E c \in TaxonomyAdmins, id \in CategoryIds : CategoriesDelete(c, id)

TaxonomyDeleteTag == \E c \in TaxonomyAdmins, id \in TagIds : TagsDelete(c, id)

NextTaxonomy ==
  \/ TaxonomyCreate
  \/ TaxonomyUpdate
  \/ TaxonomyDeletePost
  \/ TaxonomyDeleteCategory
  \/ TaxonomyDeleteTag

SpecTaxonomy == Init /\ [][NextTaxonomy]_vars

C2_CategoryReferenced(id) == \E p \in DOMAIN posts : posts[p].category = id

C2_TagReferenced(id) == \E p \in DOMAIN posts : \E i \in DOMAIN posts[p].tags : posts[p].tags[i] = id

C2_Category ==
  (/\ res'.op = "deleteCategory" /\ res'.req.user.role = "admin"
   /\ res'.req.id \in DOMAIN categories)
    => IF C2_CategoryReferenced(res'.req.id)
       THEN res'.code = 400 /\ categories' = categories
       ELSE res'.code = 200 /\ categories' = Remove(categories, {res'.req.id})

C2_Tag ==
  (/\ res'.op = "deleteTag" /\ res'.req.user.role = "admin"
   /\ res'.req.id \in DOMAIN tags)
    => IF C2_TagReferenced(res'.req.id)
       THEN res'.code = 400 /\ tags' = tags
       ELSE res'.code = 200 /\ tags' = Remove(tags, {res'.req.id})

\* C2: an admin's delete of a stored category or tag is rejected with 400, the record
\* still stored, exactly when some post (of any status, active or not) references it,
\* and is accepted, the record removed, exactly when no post references it.
C2_DeleteGuardedByUsage == [][C2_Category /\ C2_Tag]_vars

\* a delete was rejected although every referencing post is inactive or archived
C2_Witness ==
  /\ res.op = "deleteCategory" /\ res.code = 400
  /\ res.req.id \in DOMAIN categories
  /\ \A p \in DOMAIN posts :
       posts[p].category = res.req.id => (~posts[p].isActive \/ posts[p].status # "published")

(***************************************************************************)
(* SpecList: posts published at different times, archived and switched     *)
(* inactive, and the list requests.                                        *)
(***************************************************************************)
NoQuery == [f \in {} |-> ""]

ListCreateBodies == {ValidPost, ValidPost @@ [status |-> "published"]}

ListUpdateBodies == {[status |-> "published"], [status |-> "archived"], [isActive |-> FALSE]}

ListQueries == {NoQuery, [sort |-> "oldest"]}

ListCreate == \E b \in ListCreateBodies : PostsCreate(EditorId, b)

ListUpdate == \E id \in PostIds, b \in ListUpdateBodies : PostsUpdate(EditorId, id, b)

ListRead == \E q \in ListQueries : PostsList(0, q)

NextList == ListCreate \/ ListUpdate \/ ListRead \/ Tick

SpecList == Init /\ [][NextList]_vars

\* C8: an anonymous GET /posts with no query parameters returns only posts that are
\* published and active, ordered by publishedAt descending, and no returned item
\* carries the content field.
C8_AnonymousList ==
  (res.op = "getPosts" /\ res.req.user = NoUser /\ DOMAIN res.req.body = {})
    => LET items == res.data.items
       IN /\ \A i \in DOMAIN items :
               /\ items[i].status = "published"
               /\ items[i].isActive
               /\ "content" \notin DOMAIN items[i]
          /\ \A i, j \in DOMAIN items :
               i < j => items[i].publishedAt >= items[j].publishedAt

\* two posts published at different times are listed, the later one first
C8_Witness ==
  /\ res.op = "getPosts" /\ DOMAIN res.req.body = {}
  /\ Len(res.data.items) = 2
  /\ res.data.items[1].publishedAt > res.data.items[2].publishedAt
  /\ res.data.items[1].id > res.data.items[2].id

(***************************************************************************)
(* SpecLikes: toggle-like requests on posts and comments, next to requests *)
(* whose bodies carry a likes list of their own.                           *)
(***************************************************************************)
TwiceLiked == <<RegularId, RegularId>>

LikesCreatePost == PostsCreate(EditorId, ValidPost @@ [status |-> "published"])

LikesUpdatePost == \E id \in PostIds : PostsUpdate(EditorId, id, [likes |-> TwiceLiked])

LikesTogglePost == \E c \in {EditorId, RegularId}, id \in PostIds : PostsLike(c, id)

LikesCreateComment ==
  \E id \in PostIds, b \in {[content |-> CommentNice],
                           [content |-> CommentNice, likes |-> TwiceLiked]} :
    CommentsCreate(RegularId, id, b)

LikesToggleComment == \E c \in {EditorId, RegularId}, id \in CommentIds : CommentsLike(c, id)

NextLikes ==
  \/ LikesCreatePost
  \/ LikesUpdatePost
  \/ LikesTogglePost
  \/ LikesCreateComment
  \/ LikesToggleComment

SpecLikes == Init /\ [][NextLikes]_vars

\* two successful toggle-like answers in a row, for the same caller and target
C5_TwoToggles(op) ==
  /\ res.op = op /\ res.code = 200
  /\ res'.op = op /\ res'.code = 200
  /\ res'.req.user = res.req.user
  /\ res'.req.id = res.req.id

C5_Restored(likes) ==
  /\ Len(likes) = Len(res.data.before)
  /\ includes(likes, res.req.user.id) = includes(res.data.before, res.req.user.id)
  /\ res'.data.isLiked # res.data.isLiked

\* C5: two toggle-like calls by the same caller on the same post or comment, one
\* right after the other, leave the caller's membership in likes and the likes count
\* as they were before the first call, and the two answers report opposite isLiked.
C5_ToggleTwiceRestores ==
  [][/\ C5_TwoToggles("toggleLikePost") => C5_Restored(posts'[res.req.id].likes)
     /\ C5_TwoToggles("toggleLikeComment") => C5_Restored(comments'[res.req.id].likes)]_vars

(***************************************************************************)
(* SpecUsers: the admin user endpoints, called by everybody, with bodies   *)
(* that promote, demote and deactivate users.                              *)
(***************************************************************************)
UsersCreateBodies ==
  {[email |-> "new@blogapi.com"],
   [email |-> "new@blogapi.com", role |-> "admin"],
   [email |-> "admin@blogapi.com"],
   [email |-> BadEmail]}

UsersUpdateBodies ==
  {[role |-> "admin"], [isActive |-> FALSE], [isActive |-> TRUE], [role |-> "owner"]}

UsersCreateAny == \E c \in {AdminId, RegularId}, b \in UsersCreateBodies : UsersCreate(c, b)

UsersUpdateAny == \E c \in {AdminId, EditorId}, id \in UserIds, b \in UsersUpdateBodies : UsersUpdate(c, id, b)

UsersDeleteAny == \E c \in Callers, id \in UserIds : UsersDelete(c, id)

UsersToggleAny == \E c \in Callers, id \in UserIds : UsersToggleStatus(c, id)

NextUsers ==
  \/ UsersCreateAny
  \/ UsersUpdateAny
  \/ UsersDeleteAny
  \/ UsersToggleAny

SpecUsers == Init /\ [][NextUsers]_vars

\* the step answers a request of an admin that targets the admin's own id
SelfTargeted(ops) ==
  /\ res'.op \in ops
  /\ res'.req.user.role = "admin"
  /\ res'.req.id = res'.req.user.id

\* C6: deleteUser or toggleUserStatus called by an admin with the admin's own id
\* answers with an error and leaves the admin's record stored with isActive as it
\* was, whether or not other admins exist.
C6_SelfDeleteToggleRejected ==
  [][SelfTargeted({"deleteUser", "toggleUserStatus"}) =>
       /\ res'.code = 400
       /\ res'.req.id \in DOMAIN users'
       /\ users'[res'.req.id] = users[res'.req.id]]_vars

C6_Witness ==
  /\ res.op = "toggleUserStatus"
  /\ res.req.user.role = "admin"
  /\ res.req.id = res.req.user.id
  /\ res.code = 400
  /\ \E u \in DOMAIN users : u # res.req.id /\ users[u].role = "admin" /\ users[u].isActive

\* C7: no request of an admin to update user, delete user or toggle status with the
\* admin's own id as target leaves the admin's account deleted or with isActive false.
C7_SelfNeverRemovedOrDeactivated ==
  [][SelfTargeted({"updateUser", "deleteUser", "toggleUserStatus"}) =>
       /\ res'.req.id \in DOMAIN users'
       /\ users'[res'.req.id].isActive]_vars

(***************************************************************************)
(* SpecReplies: posts, published and draft, and the comments and replies   *)
(* a regular user creates and deletes on them.                             *)
(***************************************************************************)
CommentPostBodies ==
  {ValidPost @@ [status |-> "published"],
   [title |-> TitleOther, content |-> ContentBrief, category |-> "technology",
    status |-> "published"],
   [title |-> TitleOther, content |-> ContentBrief, category |-> "technology"]}

ReplyBodies ==
  {[content |-> CommentNice], [content |-> CommentBlank, parentComment |-> GoneCommentId]}
    \cup {[content |-> CommentNice, parentComment |-> p] :
            p \in CommentIds \cup {GoneCommentId, MalformedCommentId}}

RepliesPost == \E b \in CommentPostBodies : PostsCreate(EditorId, b)

RepliesCreate ==
  \E id \in PostIds \cup {MaxPosts + 1}, b \in ReplyBodies : CommentsCreate(RegularId, id, b)

RepliesDelete == \E c \in {0, RegularId}, id \in CommentIds : CommentsDelete(c, id)

NextReplies ==
  \/ RepliesPost
  \/ RepliesCreate
  \/ RepliesDelete

SpecReplies == Init /\ [][NextReplies]_vars

(***************************************************************************)
(* SpecComments: the comment requests (create, update, moderate, delete)   *)
(* on published posts.                                                     *)
(***************************************************************************)
CommentBodies ==
  {[content |-> CommentNice]}
    \cup {[content |-> CommentNice, parentComment |-> p] : p \in CommentIds}

CommentsPost == PostsCreate(EditorId, ValidPost @@ [status |-> "published"])

CommentsCreateAny ==
  \E id \in PostIds, b \in CommentBodies : CommentsCreate(RegularId, id, b)

CommentsUpdateAny ==
  \E c \in {RegularId, EditorId}, id \in CommentIds :
    CommentsUpdate(c, id, [content |-> CommentEdited, status |-> "rejected"])

CommentsModerateAny ==
  \E id \in CommentIds, st \in {"approved", "pending"} :
    CommentsModerate(EditorId, id, [status |-> st])

CommentsDeleteAny == \E c \in {EditorId, RegularId}, id \in CommentIds : CommentsDelete(c, id)

NextComments ==
  \/ CommentsPost
  \/ CommentsCreateAny
  \/ CommentsUpdateAny
  \/ CommentsModerateAny
  \/ CommentsDeleteAny

SpecComments == Init /\ [][NextComments]_vars

\* the step answers a createComment request whose parentComment names no stored
\* comment, or a comment of another post than the one in the URL
C3_Case ==
  /\ res'.op = "createComment"
  /\ res'.req.user # NoUser
  /\ Has(res'.req.body, "parentComment")
  /\ \/ res'.req.body.parentComment \notin DOMAIN comments
     \/ comments[res'.req.body.parentComment].post # res'.req.id

C3_NothingCreated == comments' = comments /\ nextCommentId' = nextCommentId

C3_PostFound ==
  /\ res'.req.id \in DOMAIN posts
  /\ posts[res'.req.id].status = "published"
  /\ posts[res'.req.id].isActive

\* C3 (as stated): createComment with a parentComment that names no stored comment,
\* or a comment of a different post than the one in the URL, answers 400, creates
\* no comment and leaves the replies of every stored comment unchanged.
C3_BadParentRejected ==
  [][C3_Case => (res'.code = 400 /\ C3_NothingCreated)]_vars

\* C3 (amended): such a request creates no comment and leaves the replies of every
\* stored comment unchanged; it answers 400 when the body fails validation or the
\* post in the URL is published and active, and 404 when the body is valid and the
\* post in the URL is missing, not published or not active.
C3_BadParentRejectedOnFoundPost ==
  [][C3_Case =>
       /\ C3_NothingCreated
       /\ res'.code = IF ~createCommentValidation(res'.req.body) \/ C3_PostFound
                      THEN 400 ELSE 404]_vars

C3_Witness ==
  /\ res.op = "createComment"
  /\ res.code = 400
  /\ res.msg = "Invalid parent comment ID"
  /\ Has(res.req.body, "parentComment")
  /\ res.req.body.parentComment \in DOMAIN comments
  /\ comments[res.req.body.parentComment].post # res.req.id
  /\ \E c \in DOMAIN comments : comments[c].replies # <<>>

\* C4: in every state reached by comment create, update, moderate and delete
\* requests, each stored comment whose parentComment is set references a comment
\* that is stored and belongs to the same post.
C4_ParentStoredSamePost ==
  \A c \in DOMAIN comments :
    comments[c].parentComment # NoParent =>
      /\ comments[c].parentComment \in DOMAIN comments
      /\ comments[comments[c].parentComment].post = comments[c].post

(***************************************************************************)
(* SpecModerate: comments on a published post and the requests that touch  *)
(* their status: update, moderate, like and delete.                        *)
(***************************************************************************)
ModerateBodies ==
  {[status |-> "approved"], [status |-> "rejected"], [status |-> "pending"],
   [status |-> "spam"], NoData}

ModerateUpdateBodies ==
  {[content |-> CommentNice], [content |-> CommentNice, status |-> "pending"]}

ModeratePost == PostsCreate(EditorId, ValidPost @@ [status |-> "published"])

ModerateCreate == \E id \in PostIds : CommentsCreate(RegularId, id, [content |-> CommentNice])

ModerateUpdate ==
  \E c \in {EditorId, RegularId}, id \in CommentIds, b \in ModerateUpdateBodies :
    CommentsUpdate(c, id, b)

ModerateModerate ==
  \E id \in CommentIds \cup {GoneCommentId}, b \in ModerateBodies :
    CommentsModerate(EditorId, id, b)

ModerateLike == \E id \in CommentIds : CommentsLike(RegularId, id)

ModerateDelete == \E id \in CommentIds : CommentsDelete(RegularId, id)

NextModerate ==
  \/ ModeratePost
  \/ ModerateCreate
  \/ ModerateUpdate
  \/ ModerateModerate
  \/ ModerateLike
  \/ ModerateDelete

SpecModerate == Init /\ [][NextModerate]_vars

\* C11: moderateComment with a status outside {approved, rejected} (pending, a
\* missing status, "spam") is answered 400 and no comment is written or changed,
\* also when the target id names no stored comment.
C11_BadStatusRejected ==
  [][(/\ res'.op = "moderateComment"
      /\ res'.req.user.role \in {"admin", "editor"}
      /\ \/ ~Has(res'.req.body, "status")
         \/ res'.req.body.status \notin {"approved", "rejected"})
       => (res'.code = 400 /\ comments' = comments)]_vars

C11_Witness ==
  /\ res.op = "moderateComment"
  /\ res.code = 400
  /\ res.req.user.role = "editor"
  /\ Has(res.req.body, "status") /\ res.req.body.status = "spam"
  /\ res.req.id \notin DOMAIN comments
  /\ comments # <<>>

\* C18: once the status of a comment is approved or rejected, no request (update,
\* moderate, like, delete of another comment) moves it to pending.
C18_PendingNotReentered ==
  [][\A c \in DOMAIN comments \cap DOMAIN comments' :
       comments[c].status \in {"approved", "rejected"} => comments'[c].status # "pending"]_vars

\* the step is a successful updateComment that changes the content of a stored comment
C19_ContentChanged ==
  /\ res'.op = "updateComment" /\ res'.code = 200
  /\ comments'[res'.req.id].content # comments[res'.req.id].content

\* under SpecComments every comment is created with CommentNice and every update
\* sends CommentEdited: a comment that still reads CommentNice was never changed
C19_NeverChanged(c) == comments[c].content = CommentNice

\* C19: after a successful updateComment that changes the content of a stored
\* comment, the comment has isEdited = true and editedAt set, whatever its status;
\* a comment whose content was never changed after creation has isEdited = false.
C19_EditedFlagFollowsContent ==
  /\ [][C19_ContentChanged =>
          /\ comments'[res'.req.id].isEdited
          /\ comments'[res'.req.id].editedAt # NoDate]_vars
  /\ [](\A c \in DOMAIN comments : C19_NeverChanged(c) => ~comments[c].isEdited)

\* C20: an authorized deleteComment on comment C removes C and exactly the comments
\* whose parentComment is C; comments two or more levels below C stay stored, and
\* no comment outside C's thread is removed or changed.
C20_DeleteOneLevel ==
  [][(res'.op = "deleteComment" /\ res'.code = 200) =>
       /\ res'.req.id \in DOMAIN comments
       /\ DOMAIN comments' \subseteq DOMAIN comments
       /\ \A c \in DOMAIN comments :
            /\ c \notin DOMAIN comments' <=>
                 (c = res'.req.id \/ comments[c].parentComment = res'.req.id)
            /\ c \in DOMAIN comments' => comments'[c] = comments[c]]_vars

\* after the delete of a root, a comment two levels below it is still stored
C20_Witness ==
  /\ res.op = "deleteComment" /\ res.code = 200
  /\ \E c \in DOMAIN comments :
       /\ comments[c].parentComment # NoParent
       /\ comments[c].parentComment \notin DOMAIN comments
       /\ comments[c].parentComment # res.req.id

(***************************************************************************)
(* SpecDelete: posts of the admin and the editor, comments of the editor   *)
(* and a regular user, delete requests by everybody, and the demotion of   *)
(* the editor to a regular user.                                           *)
(***************************************************************************)
DeletePostBodies == {ValidPost @@ [status |-> "published"]}

DeleteCommentBodies == {[content |-> CommentNice], [content |-> CommentNice, parentComment |-> 1]}

DeleteCallers == {0, AdminId, EditorId, RegularId}

DeleteCreatePost == \E c \in {AdminId, EditorId}, b \in DeletePostBodies : PostsCreate(c, b)

DeleteCreateComment ==
  \E c \in {EditorId, RegularId}, b \in DeleteCommentBodies : CommentsCreate(c, 1, b)

DeleteDemote == UsersUpdate(AdminId, EditorId, [role |-> "user"])

DeleteAPost == \E c \in DeleteCallers, id \in PostIds : PostsDelete(c, id)

DeleteAComment == \E c \in DeleteCallers, id \in CommentIds : CommentsDelete(c, id)

NextDelete ==
  \/ DeleteCreatePost
  \/ DeleteCreateComment
  \/ DeleteDemote
  \/ DeleteAPost
  \/ DeleteAComment

SpecDelete == Init /\ [][NextDelete]_vars

\* the step answers a delete request (op) of an authenticated caller for a stored
\* document of coll: it succeeds iff the caller is the author or an admin, and
\* answers 403 and leaves posts and comments as they were otherwise
C13_Delete(op, coll) ==
  (res'.op = op /\ res'.req.user # NoUser /\ res'.req.id \in DOMAIN coll) =>
    LET entitled == \/ coll[res'.req.id].author = res'.req.user.id
                    \/ res'.req.user.role = "admin"
    IN /\ res'.code = 200 <=> entitled
       /\ ~entitled => (res'.code = 403 /\ posts' = posts /\ comments' = comments)

\* C13: a delete request for a stored post or comment succeeds if and only if the
\* caller is its author or has role admin; an editor or user who is not the author
\* gets 403 and the post or comment, with its replies, stays stored.
C13_DeleteByAuthorOrAdmin ==
  [][/\ C13_Delete("deletePost", posts)
     /\ C13_Delete("deleteComment", comments)
     /\ (res'.op = "deletePost" /\ res'.code = 200) =>
          res'.req.id \notin DOMAIN posts'
     /\ (res'.op = "deleteComment" /\ res'.code = 200) =>
          res'.req.id \notin DOMAIN comments']_vars

\* the editor is refused the delete of another author's comment that has a reply
C13_Witness ==
  /\ res.op = "deleteComment" /\ res.code = 403
  /\ res.req.user.role = "editor"
  /\ res.req.id \in DOMAIN comments
  /\ comments[res.req.id].author # res.req.user.id
  /\ \E c \in DOMAIN comments : comments[c].parentComment = res.req.id

(***************************************************************************)
(* SpecRead: posts of every status, read by id and listed by anonymous     *)
(* callers and by token bearers of every role, and updated by their author.*)
(***************************************************************************)
ReadCreateBodies ==
  {ValidPost,
   [title |-> TitleOther, content |-> ContentBrief, category |-> "technology",
    status |-> "published"]}

ReadUpdateBodies ==
  {[status |-> "archived"], [status |-> "published"], [isActive |-> FALSE], [views |-> 0]}

ReadCallers == {0, AdminId, EditorId, RegularId}

ReadCreate == \E b \in ReadCreateBodies : PostsCreate(EditorId, b)

ReadUpdate == \E id \in PostIds, b \in ReadUpdateBodies : PostsUpdate(EditorId, id, b)

ReadLike == \E id \in PostIds : PostsLike(RegularId, id)

ReadList == \E c \in ReadCallers, q \in {NoQuery, [status |-> "draft"]} : PostsList(c, q)

ReadGet == \E c \in ReadCallers, id \in PostIds \cup {MaxPosts + 1} : PostsGet(c, id)

NextRead ==
  \/ ReadCreate
  \/ ReadUpdate
  \/ ReadLike
  \/ ReadList
  \/ ReadGet

SpecRead == Init /\ [][NextRead]_vars

\* the step is the GET /posts (no query) of token bearer c, and lists every stored post
C12_ListsAll(c) ==
  PostsList(c, NoQuery) =>
    \A p \in DOMAIN posts : \E i \in DOMAIN res'.data.items : res'.data.items[i].id = p

\* the step is the GET /posts/{id} of token bearer c for a stored post, and finds it
C12_ReadsAny(c) == \A id \in DOMAIN posts : PostsGet(c, id) => res'.code = 200

\* C12: a caller with role admin or editor who lists posts or reads a post by id
\* sees posts of every status (draft, published, archived), whereas anonymous and
\* user-role callers see only published and active posts.
C12_PrivilegedSeeAll ==
  [][\A c \in DOMAIN users :
       (protect(c) /\ users[c].role \in {"admin", "editor"}) =>
         (C12_ListsAll(c) /\ C12_ReadsAny(c))]_vars

\* C16: the view counter of a post never decreases: each successful get-by-id of
\* an anonymous or user-role caller raises it by exactly 1, and no other request
\* (update, like, list) lowers it.
C16_ViewsMonotonic ==
  [][/\ \A p \in DOMAIN posts \cap DOMAIN posts' : posts'[p].views >= posts[p].views
     /\ (res'.op = "getPost" /\ res'.code = 200
         /\ res'.req.user.role \notin {"admin", "editor"}) =>
          posts'[res'.req.id].views = posts[res'.req.id].views + 1]_vars

\* C17: GET /posts/{id} by an anonymous or user-role caller for a stored post that is
\* not published or not active answers 404 exactly as for a missing id, and leaves
\* the view counter of the post as it was.
C17_HiddenPostNotFound ==
  [][(/\ res'.op = "getPost"
      /\ res'.req.user.role \notin {"admin", "editor"}
      /\ res'.req.id \in DOMAIN posts
      /\ (posts[res'.req.id].status # "published" \/ ~posts[res'.req.id].isActive))
       => /\ res'.code = 404
          /\ res'.msg = "Post not found"
          /\ res'.data = NoData
          /\ posts' = posts]_vars

\* a post that was read while published is refused once it is archived or inactive
C17_Witness ==
  /\ res.op = "getPost" /\ res.code = 404
  /\ res.req.id \in DOMAIN posts
  /\ posts[res.req.id].views > 0

(***************************************************************************)
(* SpecNames: categories and tags created and renamed by the editor, with  *)
(* names that differ in case, in padding and in regular-expression         *)
(* metacharacters.                                                         *)
(***************************************************************************)
NameAb == <<"A", "b">>
NameAB == <<"A", "B">>
NameLowerPlus == <<"a", "+">>
NameUpperPlus == <<"A", "+">>
NamePadded == <<" ", "a", "b", " ">>
NameOne == <<"A">>
NamePlusPlus == <<"a", "+", "+">>

NamesCreateCategory ==
  \E n \in {NameAb, NameUpperPlus, NameOne, NamePlusPlus} : CategoriesCreate(EditorId, [name |-> n])

NamesUpdateCategory ==
  \E id \in {"technology", GoneId},
     n \in {NameAB, NameLowerPlus, NamePadded} :
    CategoriesUpdate(EditorId, id, [name |-> n])

NamesCreateTag == \E n \in {NameAb, NameLowerPlus} : TagsCreate(EditorId, [name |-> n])

NamesUpdateTag ==
  \E id \in {"python", NewTagIds[1]}, n \in {NameAB, NameUpperPlus} :
    TagsUpdate(EditorId, id, [name |-> n])

NextNames ==
  \/ NamesCreateCategory
  \/ NamesUpdateCategory
  \/ NamesCreateTag
  \/ NamesUpdateTag

SpecNames == Init /\ [][NextNames]_vars

C15_Unique(coll) ==
  \A x, y \in DOMAIN coll : x # y => lowerName(coll[x].name) # lowerName(coll[y].name)

\* C15: in every state reached by category (tag) create and update requests, no
\* two stored categories (tags) have names that are equal when compared
\* case-insensitively.
C15_NamesUniqueIgnoringCase == C15_Unique(categories) /\ C15_Unique(tags)

(***************************************************************************)
(* SpecRoles: every role-gated write, requested by an anonymous caller and *)
(* by the admin, the editor and a regular user.                            *)
(***************************************************************************)
RoleCallers == {0, AdminId, EditorId, RegularId}

RolesCreatePost == \E c \in RoleCallers : nextPostId = 1 /\ PostsCreate(c, ValidPost @@ [status |-> "published"])

\* one comment and one new user are enough to have a target for every request
RolesComment == nextCommentId = 1 /\ CommentsCreate(RegularId, 1, [content |-> CommentNice])

RolesModerate == \E c \in RoleCallers : CommentsModerate(c, 1, [status |-> "rejected"])

RolesCreateCategory == \E c \in RoleCallers : CategoriesCreate(c, [name |-> NameAb])

RolesUpdateCategory ==
  \E c \in RoleCallers : CategoriesUpdate(c, "programming", [isActive |-> FALSE])

RolesDeleteCategory == \E c \in RoleCallers : CategoriesDelete(c, "programming")

RolesCreateTag == \E c \in RoleCallers : TagsCreate(c, [name |-> NameAb])

RolesUpdateTag == \E c \in RoleCallers : TagsUpdate(c, "python", [isActive |-> FALSE])

RolesDeleteTag == \E c \in RoleCallers : TagsDelete(c, "python")

RolesCreateUser ==
  /\ nextUserId = RegularId + 1
  /\ \E c \in RoleCallers : UsersCreate(c, [email |-> "new@blogapi.com"])

RolesUpdateUser == \E c \in RoleCallers : UsersUpdate(c, RegularId + 1, [role |-> "editor"])

RolesDeleteUser == \E c \in RoleCallers : UsersDelete(c, RegularId + 1)

RolesToggleUser == \E c \in RoleCallers : UsersToggleStatus(c, RegularId + 1)

NextRoles ==
  \/ RolesCreatePost
  \/ RolesComment
  \/ RolesModerate
  \/ RolesCreateCategory
  \/ RolesUpdateCategory
  \/ RolesDeleteCategory
  \/ RolesCreateTag
  \/ RolesUpdateTag
  \/ RolesDeleteTag
  \/ RolesCreateUser
  \/ RolesUpdateUser
  \/ RolesDeleteUser
  \/ RolesToggleUser

SpecRoles == Init /\ [][NextRoles]_vars

EditorOps ==
  {"createPost", "createCategory", "updateCategory", "createTag", "updateTag",
   "moderateComment"}

AdminOps ==
  {"deleteCategory", "deleteTag", "createUser", "updateUser", "deleteUser",
   "toggleUserStatus"}

C14_Denied ==
  /\ res'.code \in {401, 403}
  /\ UNCHANGED <<users, categories, tags, posts, comments>>

\* C14: creating a post, creating or updating a category or tag and moderating a
\* comment are done only for callers with role admin or editor; deleting a category
\* or tag and every /users operation only for callers with role admin; a caller
\* with a lower role (or none) is denied and causes none of these writes.
C14_RoleGates ==
  [][/\ (res'.op \in EditorOps /\ res'.req.user.role \notin {"admin", "editor"}) => C14_Denied
     /\ (res'.op \in AdminOps /\ res'.req.user.role # "admin") => C14_Denied
     /\ (categories' # categories \/ tags' # tags \/ DOMAIN posts' # DOMAIN posts) =>
          res'.req.user.role \in {"admin", "editor"}
     /\ (\/ users' # users
         \/ ~(DOMAIN categories \subseteq DOMAIN categories')
         \/ ~(DOMAIN tags \subseteq DOMAIN tags')) =>
          res'.req.user.role = "admin"]_vars

\* the editor is refused the delete of a category that no post uses
C14_Witness ==
  /\ res.op = "deleteCategory" /\ res.code = 403
  /\ res.req.user.role = "editor"
  /\ res.req.id \in DOMAIN categories
  /\ postsUsingCategory(res.req.id) = 0
  /\ \E c \in DOMAIN categories : c \notin CategoryIds

(***************************************************************************)
(* SpecThread: comments and replies on a published post and every request  *)
(* that touches them afterwards.                                           *)
(***************************************************************************)
ThreadBodies ==
  {[content |-> CommentNice],
   [content |-> CommentNice, parentComment |-> 1],
   [content |-> CommentNice, parentComment |-> 2]}

ThreadPost == PostsCreate(EditorId, ValidPost @@ [status |-> "published"])

ThreadCreate == \E b \in ThreadBodies : CommentsCreate(RegularId, 1, b)

\* the comments that have got a reply: the targets of update, moderate and like
ThreadParents == {c \in DOMAIN comments : comments[c].replies # <<>>}

ThreadUpdate == \E id \in ThreadParents : CommentsUpdate(RegularId, id, [content |-> CommentEdited])

ThreadModerate == \E id \in ThreadParents : CommentsModerate(EditorId, id, [status |-> "rejected"])

ThreadLike == \E id \in ThreadParents : CommentsLike(RegularId, id)

ThreadDelete == \E id \in CommentIds : CommentsDelete(RegularId, id)

NextThread ==
  \/ ThreadPost
  \/ ThreadCreate
  \/ ThreadUpdate
  \/ ThreadModerate
  \/ ThreadLike
  \/ ThreadDelete

SpecThread == Init /\ [][NextThread]_vars

\* the step creates a reply: its id is among the replies of the parent afterwards
C21_ReplyRecorded ==
  (/\ res'.op = "createComment" /\ res'.code = 201
   /\ Has(res'.req.body, "parentComment") /\ res'.req.body.parentComment # NoParent)
    => includes(comments'[res'.req.body.parentComment].replies, res'.data.id)

\* the replies of a comment that stays stored keep every entry they have
C21_RepliesKept ==
  \A c \in DOMAIN comments \cap DOMAIN comments' :
    \A i \in DOMAIN comments[c].replies :
      /\ i \in DOMAIN comments'[c].replies
      /\ comments'[c].replies[i] = comments[c].replies[i]

\* C21: when a comment is created with parentComment P, the replies of P contain the
\* id of the new comment afterwards, and still contain it after every later request
\* (update, moderate, like, delete of that reply included) while P is stored: replies
\* only ever gain entries.
C21_RepliesOnlyGain == [][C21_ReplyRecorded /\ C21_RepliesKept]_vars

\* a reply was deleted and its id is still among the replies of its stored parent
C21_Witness ==
  /\ res.op = "deleteComment" /\ res.code = 200
  /\ res.req.id \notin DOMAIN comments
  /\ \E c \in DOMAIN comments : includes(comments[c].replies, res.req.id)

(***************************************************************************)
(* SpecListing: comments and replies on two published posts, with bodies   *)
(* that carry a status, an active flag and a replies list of their own,    *)
(* moderated and deleted, and the public listing of a post's comments.     *)
(***************************************************************************)
ListingPostBodies ==
  {ValidPost @@ [status |-> "published"],
   [title |-> TitleOther, content |-> ContentBrief, category |-> "technology",
    status |-> "published"]}

ListingBodies ==
  {[content |-> CommentNice],
   [content |-> CommentNice, parentComment |-> 1],
   [content |-> CommentNice, status |-> "pending"],
   [content |-> CommentNice, isActive |-> FALSE],
   [content |-> CommentNice, replies |-> <<1, 2, GoneCommentId>>]}

\* the first post titled TitleHello, the later ones TitleOther
ListingPost ==
  \E b \in ListingPostBodies :
    /\ (nextPostId = 1) <=> (b.title = TitleHello)
    /\ PostsCreate(EditorId, b)

\* on the first post comments of every body, on the others plain ones
ListingCreate ==
  \E id \in PostIds, b \in ListingBodies :
    /\ id # 1 => b = [content |-> CommentNice]
    /\ CommentsCreate(RegularId, id, b)

ListingModerate == \E id \in {1, 2} : CommentsModerate(EditorId, id, [status |-> "rejected"])

ListingDelete == \E id \in {1, 2} : CommentsDelete(RegularId, id)

ListingRead ==
  \E c \in {0, RegularId}, id \in PostIds \cup {MaxPosts + 1} : CommentsList(c, id, NoQuery)

NextListing ==
  \/ ListingPost
  \/ ListingCreate
  \/ ListingModerate
  \/ ListingDelete
  \/ ListingRead

SpecListing == Init /\ [][NextListing]_vars

\* C22: for a public caller GET /posts/{postId}/comments returns only comments of
\* that post with parentComment = null, status approved and isActive true, and every
\* reply nested under a returned comment is stored, active and approved, whatever
\* ids the stored replies of the parent hold.
C22_PublicListing ==
  (res.op = "getComments" /\ res.code = 200 /\ ~isPrivileged(res.req.user)) =>
    \A i \in DOMAIN res.data.items :
      LET item == res.data.items[i]
      IN /\ item.post = res.req.id
         /\ item.parentComment = NoParent
         /\ item.status = "approved"
         /\ item.isActive
         /\ item.id \in DOMAIN comments /\ comments[item.id].post = res.req.id
         /\ \A j \in DOMAIN item.replies :
              /\ item.replies[j].id \in DOMAIN comments
              /\ item.replies[j].isActive
              /\ item.replies[j].status = "approved"

\* a listed comment whose stored replies name more comments than are nested under
\* it: one that is not stored or not approved was left out, one was kept
C22_Witness ==
  /\ res.op = "getComments" /\ res.code = 200
  /\ \E i \in DOMAIN res.data.items :
       /\ res.data.items[i].replies # <<>>
       /\ Len(res.data.items[i].replies) < Len(comments[res.data.items[i].id].replies)

\* C23: whenever the title of a post is changed by a successful update its slug is
\* regenerated from the new title: in every reachable state the slug of each post,
\* minus its uniqueness suffix, is the slug form of its current title, and no two
\* posts share a slug.
C23_SlugFollowsTitle ==
  /\ \A p \in DOMAIN posts : posts[p].slug.base = slugify(posts[p].title)
  /\ \A p, q \in DOMAIN posts : p # q => posts[p].slug # posts[q].slug

(***************************************************************************)
(* SpecRace: a published post with a comment, and toggle-like requests of  *)
(* the same users that run concurrently.                                   *)
(***************************************************************************)
\* one post and one comment are the targets
RacePost == nextPostId = 1 /\ PostsCreate(EditorId, ValidPost @@ [status |-> "published"])

RaceComment == nextCommentId = 1 /\ CommentsCreate(RegularId, 1, [content |-> CommentNice])

RaceCallers == {RegularId}

RacePostRead == \E s \in Slots, c \in RaceCallers : PostsLikeRead(s, c, 1)

RacePostSave == \E s \in Slots : toggleLikePostSave(s)

RaceCommentRead == \E s \in Slots, c \in RaceCallers : CommentsLikeRead(s, c, 1)

RaceCommentSave == \E s \in Slots : toggleLikeCommentSave(s)

NextRace ==
  \/ RacePost
  \/ RaceComment
  \/ RacePostRead
  \/ RacePostSave
  \/ RaceCommentRead
  \/ RaceCommentSave

SpecRace == Init /\ [][NextRace]_vars

count(arr, x) == Cardinality({i \in DOMAIN arr : arr[i] = x})

\* slot s resumes at save() in this step, having read likes without the caller's
\* id, while the stored likes hold it by now
C24_StaleSave(s, op, coll) ==
  /\ inflight[s].pc = "read" /\ inflight[s].op = op
  /\ inflight'[s].pc = "done"
  /\ inflight[s].req.id \in DOMAIN coll
  /\ ~includes(inflight[s].snap.likes, inflight[s].req.user.id)
  /\ includes(coll[inflight[s].req.id].likes, inflight[s].req.user.id)

C24_Appended(s, coll, collAfter) ==
  LET uid == inflight[s].req.user.id
      id == inflight[s].req.id
  IN /\ count(collAfter[id].likes, uid) = count(coll[id].likes, uid) + 1
     /\ inflight'[s].answer.code = 200
     /\ inflight'[s].answer.data.isLiked

\* C24: a toggle-like request that read the likes before another request of the
\* same user wrote them appends the user's id although the stored likes hold it
\* already, and reports isLiked = true; so when two requests of a user on the same
\* post (or comment) both read before either writes, the id is in likes twice and
\* both answers report isLiked = true.
C24_BothAppend ==
  [][\A s \in Slots :
       /\ C24_StaleSave(s, "toggleLikePost", posts) => C24_Appended(s, posts, posts')
       /\ C24_StaleSave(s, "toggleLikeComment", comments)
            => C24_Appended(s, comments, comments')]_vars

\* two requests of the same user on the same post, each begun while the other had
\* read and not yet written, are both answered isLiked = true and the user's id is
\* in the stored likes twice
C24_Witness ==
  \E s, t \in Slots :
    /\ s # t
    /\ inflight[s].pc = "done" /\ inflight[t].pc = "done"
    /\ inflight[s].op = "toggleLikePost" /\ inflight[t].op = "toggleLikePost"
    /\ inflight[s].req = inflight[t].req
    /\ s \in inflight[t].began
    /\ t \in inflight[s].ended
    /\ inflight[s].answer.code = 200 /\ inflight[s].answer.data.isLiked
    /\ inflight[t].answer.code = 200 /\ inflight[t].answer.data.isLiked
    /\ inflight[s].req.id \in DOMAIN posts
    /\ count(posts[inflight[s].req.id].likes, inflight[s].req.user.id) = 2

(***************************************************************************)
(* SpecOrphan: createPost and updatePost requests of the editor and        *)
(* deleteCategory requests of the admin that run concurrently.             *)
(***************************************************************************)
OrphanCreateBodies ==
  {ValidPost,
   [title |-> TitleOther, content |-> ContentBrief, category |-> "programming",
    tags |-> <<"javascript">>]}

OrphanCreate ==
  \E s \in Slots, b \in OrphanCreateBodies : PostsCreateBegin(s, EditorId, b)

OrphanUpdate == \E s \in Slots : PostsUpdateBegin(s, EditorId, 1, [category |-> "programming"])

OrphanDelete == \E s \in Slots, id \in CategoryIds : CategoriesDeleteBegin(s, AdminId, id)

OrphanStep ==
  \E s \in Slots :
    \/ updatePostCategory(s)
    \/ postTags(s)
    \/ createPostWrite(s)
    \/ updatePostWrite(s)
    \/ deleteCategoryCount(s)
    \/ deleteCategoryRemove(s)

NextOrphan ==
  \/ OrphanCreate
  \/ OrphanUpdate
  \/ OrphanDelete
  \/ OrphanStep

SpecOrphan == Init /\ [][NextOrphan]_vars

\* slot s does the write of its post request in this step, and the category its
\* body names is not stored any more
C25_LateWrite(s, op) ==
  /\ inflight[s].op = op
  /\ readyToWrite(s)
  /\ inflight'[s].pc = "done"
  /\ Has(inflight[s].req.body, "category")
  /\ inflight[s].req.body.category \notin DOMAIN categories

\* no stored post has the slug the post of slot s would get now
C25_SlugFree(s) ==
  \A p \in DOMAIN posts :
    posts[p].slug # [base |-> slugify(inflight[s].req.body.title), stamp |-> now]

\* C25: the write of a createPost (or updatePost) request whose category check passed
\* goes through although a deleteCategory request has counted no post and removed the
\* category in between: both requests succeed and a stored post references a
\* category that is not stored.
C25_WriteAfterDelete ==
  [][\A s \in Slots :
       /\ (C25_LateWrite(s, "createPost") /\ C25_SlugFree(s)) =>
            /\ inflight'[s].answer.code = 201
            /\ posts'[nextPostId].category = inflight[s].req.body.category
            /\ posts'[nextPostId].category \notin DOMAIN categories'
       /\ (C25_LateWrite(s, "updatePost") /\ inflight[s].req.id \in DOMAIN posts) =>
            /\ inflight'[s].answer.code = 200
            /\ posts'[inflight[s].req.id].category = inflight[s].req.body.category
            /\ posts'[inflight[s].req.id].category \notin DOMAIN categories']_vars

\* a createPost and a deleteCategory for its category were both answered with
\* success, the delete having begun and ended while the createPost was between its
\* check and its write, and the stored post references the missing category
C25_Witness ==
  \E s, t \in Slots :
    /\ inflight[s].pc = "done" /\ inflight[s].op = "createPost"
    /\ inflight[s].answer.code = 201
    /\ inflight[t].pc = "done" /\ inflight[t].op = "deleteCategory"
    /\ inflight[t].answer.code = 200
    /\ inflight[t].req.id = inflight[s].req.body.category
    /\ s \in inflight[t].began /\ s \in inflight[t].ended
    /\ inflight[s].answer.data.id \in DOMAIN posts
    /\ posts[inflight[s].answer.data.id].category \notin DOMAIN categories

(***************************************************************************)
(* SpecTagList: posts created and updated with tags lists that are empty,  *)
(* name stored tags, name a tag twice or name a tag that is not stored,    *)
(* while tags get deleted.                                                 *)
(***************************************************************************)
TagLists ==
  {<<>>, <<"javascript">>, <<"javascript", "python">>, <<"javascript", "javascript">>,
   <<"javascript", GoneId>>}

TagListCreate ==
  \E t \in TagLists :
    PostsCreate(EditorId, [title |-> IF nextPostId = 1 THEN TitleHello ELSE TitleOther,
                           content |-> ContentBrief, category |-> "technology",
                           tags |-> t])

TagListUpdate == \E id \in PostIds, t \in TagLists : PostsUpdate(EditorId, id, [tags |-> t])

TagListDelete == \E id \in TagIds : TagsDelete(AdminId, id)

NextTagList ==
  \/ TagListCreate
  \/ TagListUpdate
  \/ TagListDelete

SpecTagList == Init /\ [][NextTagList]_vars

\* the step answers a createPost or updatePost request with a non-empty tags list
\* that nothing but the tags can fail: the caller may do it, the body is valid, the
\* category (if named) and the post to update are stored, the slug is free
C26_Case ==
  LET body == res'.req.body
  IN /\ res'.op \in {"createPost", "updatePost"}
     /\ res'.req.user # NoUser
     /\ hasTags(body)
     /\ Has(body, "category") => body.category \in DOMAIN categories
     /\ res'.op = "createPost" =>
          /\ res'.req.user.role \in {"admin", "editor"}
          /\ createPostValidation(body)
          /\ \A p \in DOMAIN posts :
               posts[p].slug # [base |-> slugify(body.title), stamp |-> now]
     /\ res'.op = "updatePost" =>
          /\ updatePostValidation(body)
          /\ res'.req.id \in DOMAIN posts
          /\ mayUpdatePost(posts[res'.req.id], res'.req.user)

\* C26: createPost and updatePost with a non-empty tags list are rejected with 400,
\* no post created or changed, if and only if at least one listed id references no
\* stored tag; a list of stored tags, one that names a stored tag twice included,
\* is accepted.
C26_RejectedIffTagMissing ==
  [][C26_Case =>
       /\ (res'.code = 400 /\ posts' = posts)
            <=> (\E i \in DOMAIN res'.req.body.tags : res'.req.body.tags[i] \notin DOMAIN tags)
       /\ res'.code \in {200, 201, 400}]_vars

(***************************************************************************)
(* SpecRefs: posts, categories and tags created, updated and deleted, one  *)
(* request after the other.                                                *)
(***************************************************************************)
RefsCategories == CategoryIds \cup {NewCategoryIds[1], GoneId}

RefsTagLists == {<<>>, <<"python", "javascript">>, <<NewTagIds[1]>>, <<GoneId>>}

RefsPostCreate ==
  \E c \in RefsCategories, t \in RefsTagLists :
    PostsCreate(EditorId, [title |-> IF nextPostId = 1 THEN TitleHello ELSE TitleOther,
                           content |-> ContentBrief, category |-> c, tags |-> t])

RefsPostUpdate ==
  \E id \in PostIds :
    \/ \E c \in RefsCategories : PostsUpdate(EditorId, id, [category |-> c])
    \/ \E t \in RefsTagLists : PostsUpdate(EditorId, id, [tags |-> t])

RefsPostDelete == \E id \in PostIds : PostsDelete(EditorId, id)

RefsCategoryCreate == CategoriesCreate(EditorId, [name |-> NameAb])

RefsCategoryUpdate == CategoriesUpdate(EditorId, NewCategoryIds[1], [name |-> NameOne])

RefsCategoryDelete == \E id \in {"technology", NewCategoryIds[1]} : CategoriesDelete(AdminId, id)

RefsTagCreate == TagsCreate(EditorId, [name |-> NameAb])

RefsTagUpdate == TagsUpdate(EditorId, NewTagIds[1], [name |-> NameOne])

RefsTagDelete == \E id \in {"javascript", NewTagIds[1]} : TagsDelete(AdminId, id)

NextRefs ==
  \/ RefsPostCreate
  \/ RefsPostUpdate
  \/ RefsPostDelete
  \/ RefsCategoryCreate
  \/ RefsCategoryUpdate
  \/ RefsCategoryDelete
  \/ RefsTagCreate
  \/ RefsTagUpdate
  \/ RefsTagDelete

SpecRefs == Init /\ [][NextRefs]_vars

OwnCommentBodies ==
  {[content |-> CommentNice],
   [content |-> CommentNice, parentComment |-> 1],
   [content |-> CommentNice, status |-> "pending"],
   [content |-> CommentNice, status |-> "rejected", isActive |-> FALSE],
   [content |-> CommentNice, author |-> AdminId, post |-> 2]}

OwnCommentsPost == PostsCreate(EditorId, ValidPost @@ [status |-> "published"])

OwnCommentsCreate == \E b \in OwnCommentBodies : CommentsCreate(RegularId, 1, b)

OwnCommentsUpdate ==
  \E id \in CommentIds :
    CommentsUpdate(RegularId, id, [content |-> CommentEdited, status |-> "rejected"])

OwnCommentsLike == \E id \in CommentIds : CommentsLike(RegularId, id)

OwnCommentsDelete == \E id \in CommentIds : CommentsDelete(RegularId, id)

NextOwnComments ==
  \/ OwnCommentsPost
  \/ OwnCommentsCreate
  \/ OwnCommentsUpdate
  \/ OwnCommentsLike
  \/ OwnCommentsDelete

SpecOwnComments == Init /\ [][NextOwnComments]_vars

\* C28: no request of a caller with role user (create comment with any body, update
\* own comment, like, delete) leaves a stored comment whose status is pending or
\* rejected, whose isActive is false, or whose author is another user.
C28_UserCommentsApproved ==
  \A c \in DOMAIN comments :
    /\ comments[c].status = "approved"
    /\ comments[c].isActive
    /\ comments[c].author = RegularId

(***************************************************************************)
(* SpecRegister: anybody registers; the admin creates, updates and deletes *)
(* users.                                                                  *)
(***************************************************************************)
RegisterBodies ==
  {[email |-> "new@blogapi.com"],
   [email |-> "new@blogapi.com", role |-> "user", isActive |-> FALSE],
   [email |-> "new@blogapi.com", role |-> "admin"],
   [email |-> "new@blogapi.com", role |-> "owner"],
   [email |-> "user@blogapi.com", role |-> "editor"]}

RegisterAny == \E b \in RegisterBodies : AuthRegister(b)

RegisterAdminCreate ==
  \E r \in {"user", "editor"} : UsersCreate(AdminId, [email |-> "new@blogapi.com", role |-> r])

RegisterAdminUpdate ==
  \E id \in UserIds, r \in {"user", "admin"} : UsersUpdate(AdminId, id, [role |-> r])

RegisterAdminDelete == \E id \in UserIds : UsersDelete(AdminId, id)

NextRegister ==
  \/ RegisterAny
  \/ RegisterAdminCreate
  \/ RegisterAdminUpdate
  \/ RegisterAdminDelete

SpecRegister == Init /\ [][NextRegister]_vars

\* the step leaves user u with role admin or editor, and u was not stored with that
\* role before
C29_Elevated(u) ==
  /\ users'[u].role \in {"admin", "editor"}
  /\ u \in DOMAIN users => users[u].role # users'[u].role

C30_CommentsHavePost ==
  /\ \A c \in DOMAIN comments : comments[c].post \in DOMAIN posts
  /\ (res.op = "deletePost" /\ res.code = 200)
       => \A c \in DOMAIN comments : comments[c].post # res.req.id

=============================================================================
